---- MODULE Spec2Model ----
(***************************************************************************)
(* A model of the engine core of the "Thermal Trials" game                 *)
(* (kadir014/pgcs-spring-jam-2024): the input manager, the profiling       *)
(* statistics, the frame loop of Engine.run with its scene transition, and *)
(* the entity bookkeeping of the Game scene.                               *)
(*                                                                         *)
(* Python lists are sequences, list indices of the code (0-based) are      *)
(* shifted by one.  A state triple [held, pressed, released] of the input  *)
(* manager is the tuple <<held, pressed, released>>.  Wall-clock time is   *)
(* an integer number of ticks.                                             *)
(***************************************************************************)
EXTENDS Integers, Sequences, FiniteSets, TLC

VARIABLES
    \* ---- platform (pygame) side of the input
    pending,        \* events queued by the platform since the last pygame.event.get()
    down,           \* keys and buttons physically down
    \* ---- Engine.events and InputManager
    events,         \* Engine.events: the queue consumed by the last handle_events()
    key_states,     \* InputManager.__key_states
    mouse_states,   \* InputManager.__mouse_states
    mouse_at,       \* InputManager.mouse, as the screen region the pointer is in
    held_before,    \* history: the held flags as they were before the last update()
    stick,          \* the joystick: whether one is connected, its axes, the last get_stick()
    crossing,       \* the window and the last position taken from screen to simulation units
    blur,           \* the last texel the blur shader shaded: its input, its loop counts, its output
    config,         \* settings.cfg and what the engine and the settings button make of it
    \* ---- Engine.stats
    stats,          \* Engine.stats
    samples,        \* history: every sample handed to _accumulate, per series
    frames,         \* history: the iterations of the main loop completed while profiled
    profiled,       \* whether this behaviour follows the statistics of the frame loop
    \* ---- Engine: the run loop, the scenes, the transition
    pc,             \* where Engine.run stands: "top", "update", "render", "present", "quit"
    is_running,     \* Engine.is_running
    crashed,        \* an exception has propagated out of run()
    stat_drawing,   \* Engine.stat_drawing
    now,            \* what time() returns, in ticks
    current_scene,  \* Engine.__current_scene
    scenes,         \* Engine.scenes: class name -> scene instance (NoScene: no entry)
    in_transition,  \* Engine.in_transition
    transitioned,   \* Engine.transitioned
    transition_start,    \* Engine.transition_start
    transition_scene,    \* Engine.transition_scene
    transition_duration, \* Engine.transition_duration
    fade,           \* the value last written to the post-process shader's u_fade
    pass_list,      \* the scene whose entities list the update loop iterates
    it,             \* the list iterator of that loop: how many elements it has yielded
    \* ---- the scenes' entities
    entities,       \* Scene.entities, per scene
    killed,         \* the entities whose killed flag is set
    hovered,        \* the buttons whose hovered flag is set
    btn_pressed,    \* the buttons whose pressed flag is set
    settings_gen,   \* how often Settings.init_btns has run
    \* ---- the Game scene
    particles,      \* Game.particles
    icecubes,       \* Game.icecubes
    space,          \* Game.space: the rigid bodies whose body and shape are in it
    oob,            \* the bodies whose position is outside the window rectangle
    next_id,        \* the number the next RigidBody object gets
    temperature,    \* Game.temperature, in units of 10.0
    current_level,  \* Game.current_level
    level_change,   \* Game.level_change
    debug_drawing,  \* Game.debug_drawing
    textbox,        \* Game.textbox: [visible, done, anim_type, left (characters to type)]
    textbox_slide,  \* Game.textbox_slide
    forced,         \* the bodies with a force applied that no step has consumed yet
    particle_vbo,   \* WaterPostProcess.particle_vbo: its slots, one particle position each
    \* ---- history of the current frame and of the last transition request
    pass_start,     \* the entities list as it was when the update loop began
    visited,        \* the entities whose update() the loop has called, in order
    trace,          \* the phases of the frame so far, in order
    targets,        \* the scenes that received an update or render call this frame
    req,            \* the last change_scene_transition request and what followed it
    drawn,          \* the render calls of this frame's render phase, in order
    raster,         \* what the particle pass of this frame's post-process drew
    added           \* the scene instances add_scene has constructed, in order

inputVars  == <<pending, down, events, key_states, mouse_states, mouse_at, held_before,
               stick, crossing, blur, config>>
statVars   == <<stats, samples, frames, profiled>>
engineVars == <<pc, is_running, crashed, stat_drawing, now, current_scene, in_transition,
                transitioned, transition_start, transition_scene, transition_duration,
                fade, pass_list, it, scenes>>
sceneVars  == <<entities, killed, hovered, btn_pressed, settings_gen>>
gameVars   == <<particles, icecubes, space, oob, next_id, temperature, current_level,
                level_change, debug_drawing, textbox, textbox_slide, forced,
                particle_vbo>>
histVars   == <<pass_start, visited, trace, targets, req, drawn, raster, added>>
frameVars  == <<engineVars, sceneVars, gameVars, histVars>>
vars       == <<inputVars, statVars, frameVars>>

(***************************************************************************)
(* Small helpers on sequences.                                             *)
(***************************************************************************)
Range(s) == {s[i] : i \in 1..Len(s)}

RECURSIVE SeqSum(_)
SeqSum(s) == IF s = <<>> THEN 0 ELSE Head(s) + SeqSum(Tail(s))

\* Python's min() and max() of a non-empty list
SeqMin(s) == CHOOSE x \in Range(s) : \A y \in Range(s) : x <= y
SeqMax(s) == CHOOSE x \in Range(s) : \A y \in Range(s) : x >= y

\* The last n elements of s (all of s when it is shorter)
LastN(s, n) == IF Len(s) <= n THEN s ELSE SubSeq(s, Len(s) - n + 1, Len(s))

(***************************************************************************)
(* INPUT MANAGER  (src/engine/input.py)                                    *)
(***************************************************************************)
KeyNames    == {"space", "return", "up", "down", "r", "q", "p", "f1", "f2", "lshift", "escape"}
ButtonNames == {"left", "right", "wheelup", "wheeldown"}

KeyEvent(t, k)   == [type |-> t, code |-> k]

\* InputManager.__init__: every key and button starts [0, 0, 0]
InitKeyStates   == [k \in KeyNames |-> <<0, 0, 0>>]
InitMouseStates == [b \in ButtonNames |-> <<0, 0, 0>>]

\* A mutant of ResetTransient: the released flag is not reset
ResetTransientKeepReleased(st) == [k \in DOMAIN st |-> <<st[k][1], 0, st[k][3]>>]

\* update(), first half: "Reset pressed and released states"
ResetTransient(st) == [k \in DOMAIN st |-> <<st[k][1], 0, 0>>]

\* update(), second half: the loop over engine.events, for the keys ...
RECURSIVE ApplyKeyEvents(_, _)
ApplyKeyEvents(ks, evs) ==
    IF evs = <<>> THEN ks
    ELSE LET ev  == Head(evs)
             ks1 == IF ev.type = "KEYDOWN"
                        THEN [ks EXCEPT ![ev.code] = <<1, 1, @[3]>>]
                    ELSE IF ev.type = "KEYUP"
                        THEN [ks EXCEPT ![ev.code] = <<0, 0, 1>>]
                    ELSE ks
         IN  ApplyKeyEvents(ks1, Tail(evs))

\* ... and for the mouse buttons
RECURSIVE ApplyMouseEvents(_, _)
ApplyMouseEvents(ms, evs) ==
    IF evs = <<>> THEN ms
    ELSE LET ev  == Head(evs)
             ms1 == IF ev.type = "MOUSEBUTTONDOWN"
                        THEN [ms EXCEPT ![ev.code] = <<1, 1, @[3]>>]
                    ELSE IF ev.type = "MOUSEBUTTONUP"
                        THEN [ms EXCEPT ![ev.code] = <<0, 0, 1>>]
                    ELSE ms
         IN  ApplyMouseEvents(ms1, Tail(evs))

\* InputManager.update() on the queue evs, with the pointer in region m
InputUpdate(evs, m) ==
    /\ mouse_at' = m
    /\ key_states'   = ApplyKeyEvents(ResetTransient(key_states), evs)
    /\ mouse_states' = ApplyMouseEvents(ResetTransient(mouse_states), evs)
    /\ held_before'  = [n \in KeyNames \cup ButtonNames |->
                           IF n \in KeyNames THEN key_states[n][1]
                                             ELSE mouse_states[n][1]]
    /\ UNCHANGED <<stick, crossing, blur, config>>

\* The query methods
key_held(k)       == key_states[k][1]
key_pressed(k)    == key_states[k][2]
key_released(k)   == key_states[k][3]
mouse_held(b)     == mouse_states[b][1]
mouse_pressed(b)  == mouse_states[b][2]
mouse_released(b) == mouse_states[b][3]

\* InputManager.__init__ on a machine without a joystick: __joysticks is empty
NoVector   == [x |-> 0, y |-> 0, normalized |-> FALSE]
NoJoystick == [connected |-> FALSE, raw |-> <<0, 0>>, called |-> FALSE,
               from |-> <<0, 0>>, axis |-> NoVector]

\* No position has crossed between screen and simulation units yet; the
\* window has the size the shipped settings give it
ZeroCoord == [num |-> 0, den |-> 1]
NoCrossing(res) ==
    [width |-> res[1], height |-> res[2], site |-> "none", screen |-> <<0, 0>>,
     r |-> <<0, 0>>, body |-> <<ZeroCoord, ZeroCoord>>, updated |-> FALSE,
     position |-> <<ZeroCoord, ZeroCoord>>, killed |-> FALSE]

\* A Python value of the settings: a str or a bool
PyStr(x)  == [kind |-> "str", s |-> x, b |-> FALSE]
PyBool(x) == [kind |-> "bool", s |-> "", b |-> x]

\* settings.cfg as main.py writes it (hardware_scaling = on), the engine
\* started from it, the settings screen not opened
NoConfig == [file |-> "on", hardware_scaling |-> PyStr("on"), default_toggle |-> PyStr("on"),
             toggle |-> PyStr("on"), means |-> TRUE, saves |-> 0]

\* No texel has been shaded yet
NoBlur == [v |-> 0, dirs |-> 0, rings |-> 0, done |-> FALSE, samples |-> 0, out |-> 0]

KeysInit ==
    /\ pending = <<>>
    /\ down = {}
    /\ events = <<>>
    /\ key_states = InitKeyStates
    /\ mouse_states = InitMouseStates
    /\ mouse_at = "none"
    /\ held_before = [n \in KeyNames \cup ButtonNames |-> 0]

InputInit ==
    /\ KeysInit
    /\ stick = NoJoystick
    /\ crossing = NoCrossing(<<1280, 720>>)
    /\ blur = NoBlur
    /\ config = NoConfig

(***************************************************************************)
(* The platform: what pygame queues between two frames.  A key that is     *)
(* down repeats its KEYDOWN event (Engine.__init__ enables key repeat).    *)
(***************************************************************************)
MaxEvents == 2

\* The keys, buttons and pointer regions the platform acts on
InputKeys    == {"space", "up"}
InputButtons == {"left"}
InputRegions == {"none"}

PressKey(k) ==
    /\ k \notin down
    /\ Len(pending) < MaxEvents
    /\ pending' = Append(pending, KeyEvent("KEYDOWN", k))
    /\ down' = down \cup {k}
    /\ UNCHANGED <<events, key_states, mouse_states, mouse_at, held_before, stick, crossing, blur, config,
                   statVars, frameVars>>

RepeatKey(k) ==
    /\ k \in down
    /\ Len(pending) < MaxEvents
    /\ pending' = Append(pending, KeyEvent("KEYDOWN", k))
    /\ UNCHANGED <<down, events, key_states, mouse_states, mouse_at, held_before, stick, crossing, blur, config,
                   statVars, frameVars>>

ReleaseKey(k) ==
    /\ k \in down
    /\ Len(pending) < MaxEvents
    /\ pending' = Append(pending, KeyEvent("KEYUP", k))
    /\ down' = down \ {k}
    /\ UNCHANGED <<events, key_states, mouse_states, mouse_at, held_before, stick, crossing, blur, config,
                   statVars, frameVars>>

PressButton(b) ==
    /\ b \notin down
    /\ Len(pending) < MaxEvents
    /\ pending' = Append(pending, KeyEvent("MOUSEBUTTONDOWN", b))
    /\ down' = down \cup {b}
    /\ UNCHANGED <<events, key_states, mouse_states, mouse_at, held_before, stick, crossing, blur, config,
                   statVars, frameVars>>

ReleaseButton(b) ==
    /\ b \in down
    /\ Len(pending) < MaxEvents
    /\ pending' = Append(pending, KeyEvent("MOUSEBUTTONUP", b))
    /\ down' = down \ {b}
    /\ UNCHANGED <<events, key_states, mouse_states, mouse_at, held_before, stick, crossing, blur, config,
                   statVars, frameVars>>

\* Engine.handle_events: events = pygame.event.get(); input.update()
PollEvents ==
    /\ events' = pending
    /\ pending' = <<>>
    /\ \E m \in InputRegions : InputUpdate(pending, m)
    /\ UNCHANGED <<down, statVars, frameVars>>

(***************************************************************************)
(* PROFILING STATISTICS  (src/engine/engine.py, Engine._accumulate)        *)
(* A duration is an integer; an average is the fraction num/den.           *)
(***************************************************************************)
Series == {"render", "update", "frame", "fps"}

stat_accumulate == 30

Fraction(n, d) == [num |-> n, den |-> d]
FracEq(a, b)   == a.num * b.den = b.num * a.den

\* Engine.__init__: the stats dict
InitStats == [s \in Series |-> [avg |-> Fraction(0, 1), min |-> 0, max |-> 0, acc |-> <<>>]]

\* A mutant of Accumulate: the newest sample is evicted instead of the oldest
AccumulatePopLast(st, stat, value) ==
    LET acc1 == Append(st[stat].acc, value)
    IN  IF Len(acc1) > stat_accumulate
        THEN LET acc2 == SubSeq(acc1, 1, Len(acc1) - 1)
             IN  [st EXCEPT ![stat] = [avg |-> Fraction(SeqSum(acc2), Len(acc2)),
                                       min |-> SeqMin(acc2),
                                       max |-> SeqMax(acc2),
                                       acc |-> acc2]]
        ELSE [st EXCEPT ![stat].acc = acc1]

\* A mutant of Accumulate: the threshold test is >= instead of >
AccumulateAtWindow(st, stat, value) ==
    LET acc1 == Append(st[stat].acc, value)
    IN  IF Len(acc1) >= stat_accumulate
        THEN LET acc2 == Tail(acc1)
             IN  [st EXCEPT ![stat] = [avg |-> Fraction(SeqSum(acc2), Len(acc2)),
                                       min |-> SeqMin(acc2),
                                       max |-> SeqMax(acc2),
                                       acc |-> acc2]]
        ELSE [st EXCEPT ![stat].acc = acc1]

\* Engine._accumulate(stat, value): the new value of Engine.stats
Accumulate(st, stat, value) ==
    LET acc1 == Append(st[stat].acc, value)
    IN  IF Len(acc1) > stat_accumulate
        THEN LET acc2 == Tail(acc1)                         \* acc.pop(0)
             IN  [st EXCEPT ![stat] = [avg |-> Fraction(SeqSum(acc2), Len(acc2)),
                                       min |-> SeqMin(acc2),
                                       max |-> SeqMax(acc2),
                                       acc |-> acc2]]
        ELSE [st EXCEPT ![stat].acc = acc1]

StatsOf(p) ==
    /\ stats = InitStats
    /\ samples = [s \in Series |-> <<>>]
    /\ frames = 0
    /\ profiled = p

StatsInit == StatsOf(FALSE)

\* The measurements of a frame, handed to _accumulate in order: ms is a
\* sequence of <<series, value>>
RECURSIVE AccumulateAll(_, _)
AccumulateAll(st, ms) ==
    IF ms = <<>> THEN st
    ELSE AccumulateAll(Accumulate(st, Head(ms)[1], Head(ms)[2]), Tail(ms))

RECURSIVE SamplesAfter(_, _)
SamplesAfter(sm, ms) ==
    IF ms = <<>> THEN sm
    ELSE SamplesAfter([sm EXCEPT ![Head(ms)[1]] = Append(@, Head(ms)[2])], Tail(ms))

\* A mutant of Measured: nothing is recorded while a transition is active
MeasuredOutsideTransition(ms) ==
    IF profiled /\ ~in_transition
    THEN /\ stats' = AccumulateAll(stats, ms)
         /\ samples' = SamplesAfter(samples, ms)
    ELSE UNCHANGED <<stats, samples>>

Measured(ms) ==
    IF profiled
    THEN /\ stats' = AccumulateAll(stats, ms)
         /\ samples' = SamplesAfter(samples, ms)
    ELSE UNCHANGED <<stats, samples>>

\* ---- the harness that feeds _accumulate
MaxSamples  == 32      \* samples fed to a series
MaxChanges  == 1       \* how often the fed value may differ from the one before
SampleValues == {1, 2}

RECURSIVE Changes(_)
Changes(s) ==
    IF Len(s) < 2 THEN 0
    ELSE (IF s[1] # s[2] THEN 1 ELSE 0) + Changes(Tail(s))

\* One call of _accumulate; a run feeds one series
Record(stat, value) ==
    /\ \A s \in Series \ {stat} : samples[s] = <<>>
    /\ Len(samples[stat]) < MaxSamples
    /\ Changes(Append(samples[stat], value)) <= MaxChanges
    /\ stats' = Accumulate(stats, stat, value)
    /\ samples' = [samples EXCEPT ![stat] = Append(@, value)]
    /\ UNCHANGED <<inputVars, frames, profiled, frameVars>>

(***************************************************************************)
(* ENTITIES AND SCENES  (src/engine/entity.py, src/engine/scene.py)        *)
(* An entity object is the record [scene, kind, n]: the scene it was       *)
(* constructed in, its class (for a RigidBody: its shape and whether it is *)
(* static), and a number that tells apart objects of one class.            *)
(***************************************************************************)
SceneNames == {"Game", "Settings", "Menu"}

Entity(sc, kind, n) == [scene |-> sc, kind |-> kind, n |-> n]

RigidKinds    == {"circle", "box", "static_box"}
IsRigidBody(e) == e.kind \in RigidKinds          \* isinstance(e, RigidBody)
IsCircle(e)    == e.kind = "circle"              \* isinstance(e.shape, pymunk.Circle)

\* list.remove(e): the list without its first e
RECURSIVE ListRemove(_, _)
ListRemove(s, e) ==
    IF s = <<>> THEN <<>>
    ELSE IF Head(s) = e THEN Tail(s)
    ELSE <<Head(s)>> \o ListRemove(Tail(s), e)

(***************************************************************************)
(* The handlers below are sequences of statements on the scenes' state.    *)
(* They are written as operators on a record g of that state; g.err says   *)
(* that a statement has raised, after which the rest of the handler is     *)
(* skipped and the exception leaves run().                                 *)
(***************************************************************************)
GameState ==
    [entities |-> entities, killed |-> killed, hovered |-> hovered,
     btn_pressed |-> btn_pressed, settings_gen |-> settings_gen, particles |-> particles,
     icecubes |-> icecubes, space |-> space, oob |-> oob, next_id |-> next_id,
     temperature |-> temperature, current_level |-> current_level,
     level_change |-> level_change, debug_drawing |-> debug_drawing,
     textbox |-> textbox, textbox_slide |-> textbox_slide, forced |-> forced,
     err |-> FALSE]

Raise(g) == [g EXCEPT !.err = TRUE]

\* Scene.add_entity, called by Entity.__init__
AddEntity(g, e) == [g EXCEPT !.entities[e.scene] = Append(@, e)]

\* A mutant of EntityKill: the entity is flagged but stays in the collection
EntityKillFlagOnly(g, e) ==
    IF g.err THEN g
    ELSE IF e \notin Range(g.entities[e.scene]) THEN Raise(g)
    ELSE [g EXCEPT !.killed = @ \cup {e}]

\* Entity.kill: scene.entities.remove(self) (ValueError when it is not there),
\* then killed = True
EntityKill(g, e) ==
    IF g.err THEN g
    ELSE IF e \notin Range(g.entities[e.scene]) THEN Raise(g)
    ELSE [g EXCEPT !.entities[e.scene] = ListRemove(@, e),
                   !.killed = @ \cup {e}]

\* space.remove(body, shape): pymunk asserts that both are in the space.
\* The position of a removed body is read no more.
SpaceRemove(g, e) ==
    IF g.err THEN g
    ELSE IF e \notin g.space THEN Raise(g)
    ELSE [g EXCEPT !.space = @ \ {e}, !.oob = @ \ {e}]

\* self.scene.particles.remove(self)
ParticlesRemove(g, e) ==
    IF g.err THEN g
    ELSE IF e \notin Range(g.particles) THEN Raise(g)
    ELSE [g EXCEPT !.particles = ListRemove(@, e)]

\* self.scene.icecubes.remove(self)
IcecubesRemove(g, e) ==
    IF g.err THEN g
    ELSE IF e \notin Range(g.icecubes) THEN Raise(g)
    ELSE [g EXCEPT !.icecubes = ListRemove(@, e)]

\* The RigidBody object the next from_box / from_circle call constructs
NewBody(g, kind) == Entity("Game", kind, g.next_id)

\* RigidBody.from_box: scene.space.add(body, shape), then the constructor
\* (Entity.__init__ registers the entity; a box joins no side list)
FromBox(g, static) ==
    IF g.err THEN g
    ELSE LET b == NewBody(g, IF static THEN "static_box" ELSE "box")
         IN  [AddEntity(g, b) EXCEPT !.space = @ \cup {b}, !.next_id = @ + 1]

\* RigidBody.from_circle: the same, and the constructor appends a circle to
\* scene.particles
FromCircle(g) ==
    IF g.err THEN g
    ELSE LET b == NewBody(g, "circle")
         IN  [AddEntity(g, b) EXCEPT !.space = @ \cup {b}, !.next_id = @ + 1,
                                     !.particles = Append(@, b)]

\* Game.spawn_icecube
SpawnIcecube(g) ==
    IF g.err THEN g
    ELSE LET b == NewBody(g, "box")
         IN  [FromBox(g, FALSE) EXCEPT !.icecubes = Append(@, b)]

\* Game.spawn_particle, n times
RECURSIVE SpawnParticles(_, _)
SpawnParticles(g, n) == IF n = 0 THEN g ELSE SpawnParticles(FromCircle(g), n - 1)

\* body.apply_force_at_local_point: when the scene is hotter than 80, a
\* circle is shaken by a random force
Shake(g, e) ==
    IF ~g.err /\ g.temperature > 8 /\ IsCircle(e)
    THEN [g EXCEPT !.forced = @ \cup {e}] ELSE g

\* the side list of a body: a circle is a particle, anything else an ice cube
SideRemove(g, e) == IF IsCircle(e) THEN ParticlesRemove(g, e) ELSE IcecubesRemove(g, e)

\* A mutant of RigidBodyUpdate: the despawn forgets the side collection
RigidBodyUpdateNoSideRemoval(g, e) ==
    Shake(IF e \in g.oob THEN SpaceRemove(EntityKill(g, e), e) ELSE g, e)

\* RigidBody.update: a body whose position is outside the window rectangle is
\* killed, removed from the space and from its side list; then the force
RigidBodyUpdate(g, e) ==
    Shake(IF e \in g.oob THEN SideRemove(SpaceRemove(EntityKill(g, e), e), e) ELSE g, e)

(***************************************************************************)
(* THE GAME SCENE  (src/scenes/game.py)                                    *)
(***************************************************************************)
Levels        == {0, 1}
LevelBodies   == 1     \* static bodies a level file lists under "bodies"
MeltParticles == 1     \* particles one melting ice cube is turned into (the grid of melt())
TextLen       == 1     \* characters of a textbox text
NumSlides     == 5     \* len(Game.textbox_slides)
QSpawn        == 3     \* particles spawned per frame while q is held
MaxBodies     == 6     \* RigidBody objects constructed in a run

\* "bodies" in self.levels[level]: both level files list their bodies
HasBodies(level) == level \in Levels

\* for x in xs: x.kill(); self.space.remove(x.body, x.shape)   (xs is not changed by the loop)
RECURSIVE KillEach(_, _)
KillEach(g, xs) ==
    IF xs = <<>> \/ g.err THEN g
    ELSE KillEach(SpaceRemove(EntityKill(g, Head(xs)), Head(xs)), Tail(xs))

\* for e in self.entities: if isinstance(e, RigidBody): e.kill(); space.remove(...)
\* The list iterator yields self.entities[i] for i = 0, 1, ... while i < len.
RECURSIVE KillRigidBodies(_, _)
KillRigidBodies(g, i) ==
    IF g.err \/ i >= Len(g.entities["Game"]) THEN g
    ELSE LET e == g.entities["Game"][i + 1]
         IN  IF IsRigidBody(e)
             THEN KillRigidBodies(SpaceRemove(EntityKill(g, e), e), i + 1)
             ELSE KillRigidBodies(g, i + 1)

RECURSIVE SpawnLevelBodies(_, _)
SpawnLevelBodies(g, n) == IF n = 0 THEN g ELSE SpawnLevelBodies(FromBox(g, TRUE), n - 1)

\* self.particles.clear() / self.icecubes.clear()
ClearParticles(g) == IF g.err THEN g ELSE [g EXCEPT !.particles = <<>>]
ClearIcecubes(g)  == IF g.err THEN g ELSE [g EXCEPT !.icecubes = <<>>]
KillParticles(g)  == ClearParticles(KillEach(g, g.particles))
KillIcecubes(g)   == ClearIcecubes(KillEach(g, g.icecubes))
ResetTemperature(g) == IF g.err THEN g ELSE [g EXCEPT !.temperature = 0]

\* Game.load_level of a level whose file lists `bodies` bodies
LoadLevelOf(g, level, bodies) ==
    IF g.err THEN g
    ELSE IF level \notin Levels THEN Raise(g)          \* self.levels[level]: IndexError
    ELSE IF ~HasBodies(level) THEN g
    ELSE IF level = 1
    THEN SpawnIcecube(ResetTemperature(SpawnLevelBodies(
             KillRigidBodies(KillIcecubes(KillParticles(g)), 0), bodies)))
    ELSE ResetTemperature(SpawnLevelBodies(
             KillRigidBodies(KillIcecubes(KillParticles(g)), 0), bodies))

\* Game.load_level
LoadLevel(g, level) == LoadLevelOf(g, level, LevelBodies)

\* Game.melt: every ice cube is replaced by a grid of particles
RECURSIVE MeltEach(_, _)
MeltEach(g, xs) ==
    IF xs = <<>> \/ g.err THEN g
    ELSE MeltEach(SpaceRemove(EntityKill(SpawnParticles(g, MeltParticles), Head(xs)),
                              Head(xs)),
                  Tail(xs))

Melt(g) == ClearIcecubes(MeltEach(g, g.icecubes))

\* Game.level_clear (the timer is read as an input when it is tested)
LevelClear(g) == IF g.err THEN g ELSE [g EXCEPT !.level_change = TRUE]

\* DurkTextbox.say / show / hide
Say(g)  == IF g.err THEN g ELSE [g EXCEPT !.textbox.done = FALSE, !.textbox.left = TextLen]
Show(g) == [g EXCEPT !.textbox.visible = TRUE, !.textbox.anim_type = 0]
Hide(g) == IF g.err THEN g ELSE [g EXCEPT !.textbox.anim_type = 1]

\* DurkTextbox.update: while the text is not done, a character is typed when
\* enough time has passed since the last one (typed: the outcome of that test)
TextboxUpdate(g, typed) ==
    IF ~g.textbox.done /\ typed
    THEN [g EXCEPT !.textbox.left = @ - 1, !.textbox.done = (g.textbox.left = 1)]
    ELSE g

\* DurkTextbox.render_after: the hide animation ends by making the box
\* invisible (eased: whether the animation time is over)
TextboxRenderAfter(tb, eased) ==
    IF tb.visible /\ tb.anim_type = 1 /\ eased THEN [tb EXCEPT !.visible = FALSE] ELSE tb

Pressed(k)  == key_pressed(k) = 1
WheelUp     == mouse_pressed("wheelup") = 1         \* InputManager.mouse_wheel_up
WheelDown   == mouse_pressed("wheeldown") = 1       \* InputManager.mouse_wheel_down

\* Game.update up to the physics step, statement by statement.
\* f2 toggles the debug drawing
UpdateDebug(g) == IF Pressed("f2") THEN [g EXCEPT !.debug_drawing = ~@] ELSE g

\* self.temperature += 10.0, capped at 100 (the model counts in steps of 10)
Hotter(g) == [g EXCEPT !.temperature = IF @ + 1 > 10 THEN 10 ELSE @ + 1]

\* if self.current_level == 0 and not self.textbox.visible: self.level_clear()
ClearTutorial(g) ==
    IF ~g.err /\ g.current_level = 0 /\ ~g.textbox.visible THEN LevelClear(g) ELSE g

\* if self.temperature > 10.1: self.melt() ...
MeltWhenHot(g) == IF g.temperature >= 2 THEN ClearTutorial(Melt(g)) ELSE g

\* wheel up / up key
UpdateHotter(g) == IF WheelUp \/ Pressed("up") THEN MeltWhenHot(Hotter(g)) ELSE g

\* wheel down / down key: colder (freeze() does nothing)
UpdateColder(g) ==
    IF ~g.err /\ (WheelDown \/ Pressed("down"))
    THEN [g EXCEPT !.temperature = IF @ - 1 < 0 THEN 0 ELSE @ - 1]
    ELSE g

\* the last slide: hide the textbox, temperature 0, spawn the ice cube
EndDialogue(g) == SpawnIcecube([Hide(g) EXCEPT !.temperature = 0])

\* space / return when the textbox is done and visible: the next slide, or the
\* end of the dialogue   (the drawing branch before it is dead: self.drawing is never set)
UpdateDialogue(g) ==
    IF ~g.err /\ (Pressed("space") \/ Pressed("return"))
       /\ g.textbox.done /\ g.textbox.visible
    THEN IF g.textbox_slide = NumSlides
         THEN EndDialogue(g)
         ELSE [Say(g) EXCEPT !.textbox_slide = @ + 1]
    ELSE g

\* r: reload the level
UpdateReload(g) ==
    IF ~g.err /\ Pressed("r") /\ g.current_level > 0
    THEN LoadLevel(g, g.current_level) ELSE g

\* q held: spawn particles at the pointer
UpdateSpawn(g) == IF ~g.err /\ key_held("q") = 1 THEN SpawnParticles(g, QSpawn) ELSE g

\* self.current_level += 1; self.load_level(self.current_level); self.level_change = False
NextLevel(g) ==
    [LoadLevel([g EXCEPT !.current_level = @ + 1], g.current_level + 1)
        EXCEPT !.level_change = FALSE]

\* a cleared level is followed by the next one when
\* time() - level_change_timer > 3.0 (timer_over: the outcome of that test)
UpdateLevelChange(g, timer_over) ==
    IF ~g.err /\ g.level_change /\ timer_over THEN NextLevel(g) ELSE g

GameUpdate(g, timer_over) ==
    UpdateLevelChange(
        UpdateSpawn(UpdateReload(UpdateDialogue(UpdateColder(UpdateHotter(UpdateDebug(g)))))),
        timer_over)

\* The bodies space.step can move: the dynamic ones in the space
Dynamic(g) == {e \in g.space : e.kind # "static_box"}

\* space.step: the bodies of the space are integrated, which uses up the forces
\* applied to them; moved are the bodies that are outside the window afterwards,
\* together with the static bodies that were placed there
SpaceStep(g, moved) ==
    [g EXCEPT !.oob = moved \cup {e \in g.oob \cap g.space : e.kind = "static_box"},
              !.forced = @ \ g.space]

\* Game.__init__: textbox, cursor and gauge are constructed, then load_level(0),
\* then the textbox is shown and speaks
GameEntities == <<Entity("Game", "textbox", 0), Entity("Game", "cursor", 0),
                  Entity("Game", "gauge", 0)>>

(***************************************************************************)
(* MENU AND SETTINGS  (src/scenes/menu.py, settings.py, button.py)         *)
(***************************************************************************)
MenuEntities == <<Entity("Menu", "cursor", 0), Entity("Menu", "start", 0),
                  Entity("Menu", "settings", 0), Entity("Menu", "quit", 0)>>

\* Settings.__init__: the cursor, then init_btns()
SettingsButtons(gen) == <<Entity("Settings", "res", gen), Entity("Settings", "hw", gen)>>
SettingsEntities == <<Entity("Settings", "cursor", 0)>> \o SettingsButtons(0)

ButtonKinds == {"start", "settings", "quit", "res", "hw"}

\* The regions of the screen the pointer can be in: over one of the buttons,
\* in the top-left corner of the settings screen ("back"), over its save
\* image ("save"), or elsewhere
MouseRegions == {"none", "start", "settings", "quit", "res", "hw", "back", "save"}

\* pygame.Rect(position, size).collidepoint(self.engine.input.mouse)
Over(e, m) == m = e.kind

\* The 1.5 seconds of MenuButton.clicked_event, in ticks of a quarter second
TransitionDuration == 4

(***************************************************************************)
(* Buttons  (src/scenes/button.py)                                         *)
(***************************************************************************)
\* Button.update, the flags: hovered follows the pointer, a left press over the
\* button sets pressed, a left release clears it
ButtonHovered(g, e)     == IF Over(e, mouse_at) THEN g.hovered \cup {e} ELSE g.hovered \ {e}
ButtonArmed(g, e)       == IF mouse_pressed("left") = 1 /\ e \in ButtonHovered(g, e)
                           THEN g.btn_pressed \cup {e} ELSE g.btn_pressed
\* whether this update() calls clicked_event()
ButtonClicked(g, e)     == /\ mouse_released("left") = 1
                           /\ e \in ButtonArmed(g, e)
                           /\ e \in ButtonHovered(g, e)
ButtonUpdate(g, e) ==
    [g EXCEPT !.hovered = ButtonHovered(g, e),
              !.btn_pressed = IF mouse_released("left") = 1
                              THEN ButtonArmed(g, e) \ {e} ELSE ButtonArmed(g, e)]

(***************************************************************************)
(* ENGINE  (src/engine/engine.py)                                          *)
(* The scene pointer, the transition record and the run flag, as a record  *)
(* the engine's methods work on.                                           *)
(***************************************************************************)
EngineState ==
    [current_scene |-> current_scene, in_transition |-> in_transition,
     transitioned |-> transitioned, transition_start |-> transition_start,
     transition_scene |-> transition_scene,
     transition_duration |-> transition_duration, is_running |-> is_running]

\* Engine.change_scene
ChangeScene(en, scene_name) == [en EXCEPT !.current_scene = scene_name]

\* A mutant of ChangeSceneTransition: a call made during a transition is dropped
ChangeSceneTransitionKeepFirst(en, scene_name, duration, t) ==
    IF en.in_transition THEN en
    ELSE [en EXCEPT !.in_transition = TRUE, !.transition_scene = scene_name,
                    !.transition_duration = duration, !.transition_start = t,
                    !.transitioned = FALSE]

\* Engine.change_scene_transition, called at time t
ChangeSceneTransition(en, scene_name, duration, t) ==
    [en EXCEPT !.in_transition = TRUE, !.transition_scene = scene_name,
               !.transition_duration = duration, !.transition_start = t,
               !.transitioned = FALSE]

\* Engine.stop
Stop(en) == [en EXCEPT !.is_running = FALSE]

\* t = (time() - transition_start) / transition_duration, compared with 0.5 and 1.0
AtMidpoint(en, t) == 2 * (t - en.transition_start) >= en.transition_duration
AtEnd(en, t)      == t - en.transition_start >= en.transition_duration

\* t = (time() - self.transition_start) / self.transition_duration raises
\* ZeroDivisionError for a duration of 0
DividesByZero(en) == en.in_transition /\ en.transition_duration = 0

\* A mutant of TransitionStep: the scene is swapped at the end instead of the midpoint
TransitionStepSwapAtEnd(en, t) ==
    IF ~en.in_transition THEN en
    ELSE LET en1 == IF ~en.transitioned /\ AtEnd(en, t)
                    THEN ChangeScene([en EXCEPT !.transitioned = TRUE], en.transition_scene)
                    ELSE en
         IN  IF AtEnd(en, t) THEN [en1 EXCEPT !.in_transition = FALSE] ELSE en1

\* A mutant of TransitionStep: the transition ends at the midpoint
TransitionStepEndAtMidpoint(en, t) ==
    IF ~en.in_transition THEN en
    ELSE LET en1 == IF ~en.transitioned /\ AtMidpoint(en, t)
                    THEN ChangeScene([en EXCEPT !.transitioned = TRUE], en.transition_scene)
                    ELSE en
         IN  IF AtMidpoint(en, t) THEN [en1 EXCEPT !.in_transition = FALSE] ELSE en1

\* Engine.run, the transition block of the render phase, when time() returns t
TransitionStep(en, t) ==
    IF ~en.in_transition THEN en
    ELSE LET en1 == IF ~en.transitioned /\ AtMidpoint(en, t)
                    THEN ChangeScene([en EXCEPT !.transitioned = TRUE], en.transition_scene)
                    ELSE en
         IN  IF AtEnd(en, t) THEN [en1 EXCEPT !.in_transition = FALSE] ELSE en1

\* MenuButton.clicked_event
MenuClicked(en, e, t) ==
    IF e.kind = "start" THEN ChangeSceneTransition(en, "Game", TransitionDuration, t)
    ELSE IF e.kind = "settings" THEN ChangeScene(en, "Settings")
    ELSE IF e.kind = "quit" THEN Stop(en)
    ELSE en                       \* SettingsButton.clicked_event touches no engine state

\* Settings.update: a left press in the corner goes back to the menu and
\* rebuilds the buttons, one over the save image saves and stops
SettingsBack == mouse_pressed("left") = 1 /\ mouse_at = "back"
SettingsSave == mouse_pressed("left") = 1 /\ mouse_at = "save"

SettingsUpdateScene(g) ==
    IF SettingsBack
    THEN [g EXCEPT !.entities["Settings"] = SettingsButtons(g.settings_gen + 1),
                   !.settings_gen = @ + 1,
                   !.hovered = {e \in @ : e.scene # "Settings"},
                   !.btn_pressed = {e \in @ : e.scene # "Settings"}]
    ELSE g

SettingsUpdateEngine(en) ==
    IF SettingsBack THEN ChangeScene(en, "Menu")
    ELSE IF SettingsSave THEN Stop(en)
    ELSE en

\* ---- the particle buffer of the water post-process
\* Game.max_particles, the capacity of particle_vbo in particles: 5000 in the
\* source, scaled down to what the bounded runs can spawn
max_particles == 3

\* a slot holds the position of a particle, written as the particle's number,
\* or the zeros of a cleared buffer
ClearedSlot == 0
VboClear == [i \in 1..max_particles |-> ClearedSlot]        \* particle_vbo.clear()

\* [c for p in self.particles for c in [p.position.x, p.position.y]]
Positions(ps) == [i \in 1..Len(ps) |-> ps[i].n]

\* particle_vbo.write(data): from slot 0 on
VboWrite(vbo, data) ==
    [i \in 1..max_particles |-> IF i <= Len(data) THEN data[i] ELSE vbo[i]]

\* A mutant of VboWritten: the buffer is not cleared before it is written
VboWrittenNoClear(vbo, data) == VboWrite(vbo, data)

\* clear(), then write(data)
VboWritten(vbo, data) == VboWrite(VboClear, data)

\* WaterPostProcess.render: particle_vao.render(POINTS, vertices=len(particles))
\* reads that many slots
NoRaster == [ran |-> FALSE, vertices |-> 0, read |-> <<>>, passes |-> <<>>]

\* One pass of WaterPostProcess.render: the framebuffer made current with
\* use() and the buffers and textures bound for the draw call
Pass(name, target, reads) == [pass |-> name, target |-> target, reads |-> reads]

\* A variant in which the blur samples the target it draws into
WaterPassesBlurReadsOwnTarget ==
    << Pass("raster",    "first_fbo",  {"particle_vbo"}),
       Pass("blur",      "second_fbo", {"second_fbo"}),
       Pass("threshold", "third_fbo",  {"second_fbo"}),
       Pass("water",     "fourth_fbo", {"third_fbo", "display_tex"}),
       Pass("blurwater", "final_fbo",  {"fourth_fbo", "third_fbo"}) >>

\* WaterPostProcess.render, statement by statement (water_postprocess.py:398-438)
WaterPasses ==
    << Pass("raster",    "first_fbo",  {"particle_vbo"}),
       Pass("blur",      "second_fbo", {"first_fbo"}),
       Pass("threshold", "third_fbo",  {"second_fbo"}),
       Pass("water",     "fourth_fbo", {"third_fbo", "display_tex"}),
       Pass("blurwater", "final_fbo",  {"fourth_fbo", "third_fbo"}) >>

WaterPostRender(vbo, ps) ==
    [ran |-> TRUE, vertices |-> Len(ps), read |-> SubSeq(vbo, 1, Len(ps)),
     passes |-> WaterPasses]

(***************************************************************************)
(* The state after construction: main.py adds Game, Settings and Menu, so  *)
(* Menu is the current scene when run() starts.                            *)
(***************************************************************************)
\* ---- Engine.add_scene
\* A scene instance: the class it was made from and the number of the
\* construction that made it.  NoScene stands for a name the mapping lacks.
SceneInstance(cls, n) == [class |-> cls, id |-> n]
NoScene  == SceneInstance("", 0)
NoScenes == [n \in SceneNames |-> NoScene]
ClassName(scene_) == scene_.class                 \* scene_.__class__.__name__

\* self.__current_scene after add_scene
CurrentAfterAddFirstWins(prev, scene_) == IF prev = "" THEN ClassName(scene_) ELSE prev
CurrentAfterAdd(prev, scene_) == ClassName(scene_)

\* self.scenes[self.__current_scene] = scene_
ScenesAfterAdd(sc, name, scene_) == [sc EXCEPT ![name] = scene_]

\* the mapping a sequence of constructed instances leaves behind
RECURSIVE ScenesOf(_)
ScenesOf(insts) ==
    IF insts = <<>> THEN NoScenes
    ELSE LET scene_ == insts[Len(insts)]
         IN  ScenesAfterAdd(ScenesOf(SubSeq(insts, 1, Len(insts) - 1)),
                            CurrentAfterAdd("", scene_), scene_)

\* main.py: add_scene(Game), add_scene(Settings), add_scene(Menu)
MainScenes == <<SceneInstance("Game", 1), SceneInstance("Settings", 2),
                SceneInstance("Menu", 3)>>

\* Game.__init__ ends with load_level(0), textbox.show() and textbox.say(...).
\* That say call passes a third argument (game.py:216) which DurkTextbox.say
\* (textbox.py:97) does not take; the scenes are modelled as constructed with
\* the two arguments say has.  The scenes read engine.scaled_width and
\* engine.scaled_height (game.py:266, 399, 462, button.py:107), which
\* src/engine/engine.py does not define; they are taken as attributes the
\* engine has.
ConstructedWith(bodies) ==
    LET g0 == [entities |-> [sc \in SceneNames |->
                                IF sc = "Game" THEN GameEntities
                                ELSE IF sc = "Settings" THEN SettingsEntities
                                ELSE MenuEntities],
               killed |-> {}, hovered |-> {}, btn_pressed |-> {}, settings_gen |-> 0,
               particles |-> <<>>, icecubes |-> <<>>, space |-> {}, oob |-> {},
               next_id |-> 1, temperature |-> 0, current_level |-> 0,
               level_change |-> FALSE, debug_drawing |-> FALSE,
               textbox |-> [visible |-> FALSE, done |-> TRUE, anim_type |-> 0, left |-> 0],
               textbox_slide |-> 0, forced |-> {}, err |-> FALSE]
    IN  Say(Show(LoadLevelOf(g0, 0, bodies)))

ConstructedScenes == ConstructedWith(LevelBodies)

\* The variables of the scenes take the values of the record g
ScenesAre(g) ==
    /\ entities = g.entities /\ killed = g.killed
    /\ hovered = g.hovered /\ btn_pressed = g.btn_pressed
    /\ settings_gen = g.settings_gen
    /\ particles = g.particles /\ icecubes = g.icecubes
    /\ space = g.space /\ oob = g.oob /\ next_id = g.next_id
    /\ temperature = g.temperature /\ current_level = g.current_level
    /\ level_change = g.level_change /\ debug_drawing = g.debug_drawing
    /\ textbox = g.textbox /\ textbox_slide = g.textbox_slide
    /\ forced = g.forced

\* ... and in the next state; an exception ends run()
Commit(g) ==
    /\ entities' = g.entities /\ killed' = g.killed
    /\ hovered' = g.hovered /\ btn_pressed' = g.btn_pressed
    /\ settings_gen' = g.settings_gen
    /\ particles' = g.particles /\ icecubes' = g.icecubes
    /\ space' = g.space /\ oob' = g.oob /\ next_id' = g.next_id
    /\ temperature' = g.temperature /\ current_level' = g.current_level
    /\ level_change' = g.level_change /\ debug_drawing' = g.debug_drawing
    /\ textbox' = g.textbox /\ textbox_slide' = g.textbox_slide
    /\ forced' = g.forced
    /\ crashed' = g.err

CommitEngine(en) ==
    /\ current_scene' = en.current_scene /\ in_transition' = en.in_transition
    /\ transitioned' = en.transitioned /\ transition_start' = en.transition_start
    /\ transition_scene' = en.transition_scene
    /\ transition_duration' = en.transition_duration
    /\ is_running' = en.is_running

\* The history of the last change_scene_transition request: when it was made
\* (T), its duration and target, the scene that was current (from), whether
\* change_scene was called directly since, how often and when the transition
\* block swapped the scene, when it ended the transition, the time of the
\* last run of the transition block (-1: none yet), and, for a call made by
\* CallTransition, the request it replaced: whether one was active (overrode),
\* its target and whether it had swapped the scene already
NoRequest == [active |-> FALSE, T |-> 0, D |-> 0, target |-> "", from |-> "",
              direct |-> FALSE, swaps |-> 0, swapped_at |-> 0, ended |-> FALSE,
              ended_at |-> 0, checked |-> -1,
              overrode |-> FALSE, prev_target |-> "", prev_swapped |-> FALSE]

\* ... after a handler took the engine from en to en2 at time t; requested
\* says that the handler called change_scene_transition
Requested(en, en2, t, requested) ==
    IF requested
    THEN [NoRequest EXCEPT !.active = TRUE, !.T = t, !.D = en2.transition_duration,
                           !.target = en2.transition_scene, !.from = en2.current_scene]
    ELSE IF req.active /\ en2.current_scene # en.current_scene
    THEN [req EXCEPT !.direct = TRUE]
    ELSE req

\* ... after the transition block took the engine from en to en2 at time t
Checked(en, en2, t) ==
    IF ~en.in_transition THEN req
    ELSE [req EXCEPT !.checked = t,
                     !.swaps = IF en2.transitioned /\ ~en.transitioned THEN @ + 1 ELSE @,
                     !.swapped_at = IF en2.transitioned /\ ~en.transitioned THEN t ELSE @,
                     !.ended = ~en2.in_transition,
                     !.ended_at = IF ~en2.in_transition THEN t ELSE @]

\* The phases of scene.update(): Game.update ends with space.step
UpdatePhasesStepFirst(scene) ==
    IF scene = "Game" THEN <<"physics", "scene_update">> ELSE <<"scene_update">>

UpdatePhases(scene) ==
    IF scene = "Game" THEN <<"scene_update", "physics">> ELSE <<"scene_update">>

EngineInit ==
    /\ pc = "top" /\ is_running = TRUE /\ crashed = FALSE /\ stat_drawing = 0
    /\ now = 0
    /\ current_scene = "Menu"
    /\ in_transition = FALSE /\ transitioned = FALSE
    /\ transition_start = 0 /\ transition_scene = "" /\ transition_duration = 0
    /\ fade = Fraction(1, 1)
    /\ pass_list = "Menu" /\ it = 0
    /\ ScenesAre(ConstructedScenes)
    /\ pass_start = <<>> /\ visited = <<>> /\ trace = <<>> /\ targets = {}
    /\ drawn = <<>> /\ raster = NoRaster
    /\ particle_vbo = VboClear
    /\ req = NoRequest
    /\ scenes = ScenesOf(MainScenes) /\ added = MainScenes

\* The Game scene is current: the start button was clicked and its transition is over
GameStart(g) ==
    /\ pc = "top" /\ is_running = TRUE /\ crashed = FALSE /\ stat_drawing = 0
    /\ now = TransitionDuration
    /\ current_scene = "Game"
    /\ in_transition = FALSE /\ transitioned = TRUE
    /\ transition_start = 0 /\ transition_scene = "Game"
    /\ transition_duration = TransitionDuration
    /\ fade = Fraction(TransitionDuration, TransitionDuration)
    /\ pass_list = "Game" /\ it = 0
    /\ ScenesAre(g)
    /\ pass_start = <<>> /\ visited = <<>> /\ trace = <<>> /\ targets = {}
    /\ drawn = <<>> /\ raster = NoRaster
    /\ particle_vbo = VboClear
    /\ req = NoRequest
    /\ scenes = ScenesOf(MainScenes) /\ added = MainScenes

GameInit == GameStart(ConstructedScenes)

(***************************************************************************)
(* THE RUN LOOP  (Engine.run)                                              *)
(***************************************************************************)
MaxKeysDown == 2      \* keys and buttons down at the same time
MaxTime     == 5      \* the clock stops here
MaxInits    == 1      \* how often the settings screen rebuilds its buttons

MaxFrames   == 4      \* iterations of the loop whose statistics are followed

QuitEvent == [type |-> "QUIT", code |-> "none"]

\* What clock.get_fps() returns: a frame rate, or a float that is no number
\* of frames.  The two non-finite floats are written as negative integers.
PosInf == 0 - 1       \* float("inf")
NaN    == 0 - 2       \* float("nan")
IsFinite(f) == f >= 0
SteadyFps == {60}

\* if self.fps == float("inf"): self.fps = 0
CoerceFps(f) == IF f = PosInf THEN 0 ELSE f

\* A duration measured by profile(): its value plays no part in the model
Elapsed == 1

\* Engine.run, the fade computed after the transition block, which ran at time
\* t on the engine state en: fade = 1.0 outside a transition, else t*2 - 1 from
\* the midpoint on and (1 - t)*2 - 1 before it, as a fraction of the duration
Elapsed2(en, t) == 2 * (t - en.transition_start)

\* A mutant of Fade: the value rises to the midpoint and falls after it
FadeRiseFall(en, t) ==
    IF ~en.in_transition THEN Fraction(1, 1)
    ELSE IF Elapsed2(en, t) >= en.transition_duration
         THEN Fraction(2 * en.transition_duration - Elapsed2(en, t), en.transition_duration)
         ELSE Fraction(Elapsed2(en, t), en.transition_duration)

Fade(en, t) ==
    IF ~en.in_transition THEN Fraction(1, 1)
    ELSE IF Elapsed2(en, t) >= en.transition_duration
         THEN Fraction(Elapsed2(en, t) - en.transition_duration, en.transition_duration)
         ELSE Fraction(en.transition_duration - Elapsed2(en, t), en.transition_duration)

\* The queues pygame.event.get() can return at the top of a frame when the keys
\* and buttons in d are down: nothing, one event of a key of `keys` or of a
\* button of `buttons` (a key that is down repeats its KEYDOWN), or QUIT
FrameQueues(keys, buttons, d) ==
    {<<>>}
    \cup {<<KeyEvent("KEYDOWN", k)>> :
             k \in {x \in keys : x \in d \/ Cardinality(d) < MaxKeysDown}}
    \cup {<<KeyEvent("KEYUP", k)>> : k \in keys \cap d}
    \cup {<<KeyEvent("MOUSEBUTTONDOWN", b)>> :
             b \in {x \in buttons : x \notin d /\ Cardinality(d) < MaxKeysDown}}
    \cup {<<KeyEvent("MOUSEBUTTONUP", b)>> : b \in buttons \cap d}
    \cup {<<QuitEvent>>}

RECURSIVE DownAfter(_, _)
DownAfter(d, q) ==
    IF q = <<>> THEN d
    ELSE IF Head(q).type \in {"KEYDOWN", "MOUSEBUTTONDOWN"}
         THEN DownAfter(d \cup {Head(q).code}, Tail(q))
    ELSE IF Head(q).type \in {"KEYUP", "MOUSEBUTTONUP"}
         THEN DownAfter(d \ {Head(q).code}, Tail(q))
    ELSE DownAfter(d, Tail(q))

\* The top of the loop, lines 384-398: the frame begins, handle_events() reads the
\* queue (a QUIT event stops the engine) and updates the input, f1 cycles the
\* stat overlay, shift+escape stops the engine.  The update loop then starts on
\* self.scene.entities.
FrameInput(keys, buttons, regions, readings) ==
    /\ pc = "top" /\ is_running /\ ~crashed
    /\ profiled => frames < MaxFrames
    /\ \E f \in readings : Measured(<<<<"fps", CoerceFps(f)>>>>)
    /\ \E q \in FrameQueues(keys, buttons, down), m \in regions :
          /\ events' = q
          /\ down' = DownAfter(down, q)
          /\ InputUpdate(q, m)
    /\ stat_drawing' = IF key_states'["f1"][2] = 1 THEN (stat_drawing + 1) % 3
                       ELSE stat_drawing
    /\ is_running' = ~(\/ \E i \in 1..Len(events') : events'[i] = QuitEvent
                       \/ key_states'["lshift"][1] = 1 /\ key_states'["escape"][2] = 1)
    /\ pc' = "update" /\ pass_list' = current_scene /\ it' = 0
    /\ UNCHANGED <<scenes, added>>
    /\ pass_start' = entities[current_scene] /\ visited' = <<>>
    /\ trace' = <<"input">> /\ targets' = {} /\ drawn' = <<>> /\ raster' = NoRaster
    /\ UNCHANGED <<pending, frames, profiled, crashed, now, current_scene,
                   in_transition, transitioned, transition_start, transition_scene,
                   transition_duration, fade, sceneVars, gameVars, req>>

\* A mutant of WhileTest: the loop is left as soon as is_running is false
WhileTestEveryPhase == pc \in {"top", "update", "render", "present"}

\* Where "while self.is_running" is evaluated: at the top of an iteration only
WhileTest == pc = "top"

\* while self.is_running: ... pygame.quit()
RunEnd ==
    /\ WhileTest /\ ~is_running
    /\ pc' = "quit"
    /\ UNCHANGED <<inputVars, statVars, is_running, crashed, stat_drawing, scenes, added, now,
                   current_scene, in_transition, transitioned, transition_start,
                   transition_scene, transition_duration, fade, pass_list, it,
                   sceneVars, gameVars, histVars>>

\* A mutant of Propagate: the exception is swallowed and the loop goes on
PropagateSwallowed(raised, next) == next

\* Where run() stands after a phase: an exception is caught nowhere in run()
\* (profile() has a finally clause and no except clause), so it leaves run()
Propagate(raised, next) == IF raised THEN "quit" ELSE next

\* The measurements made when an exception leaves the frame: the finally
\* clauses of profile("update") and of profile("frame") record on the way out
Unwound == <<<<"update", Elapsed>>, <<"frame", Elapsed>>>>

\* One round of "for entity in self.scene.entities: entity.update()": the list
\* iterator yields the element at its index in the list as it is now
UpdateEntity ==
    /\ pc = "update" /\ it < Len(entities[pass_list])
    /\ LET e  == entities[pass_list][it + 1]
           en == IF e.kind \in ButtonKinds /\ ButtonClicked(GameState, e)
                 THEN MenuClicked(EngineState, e, now) ELSE EngineState
       IN  /\ it' = it + 1
           /\ visited' = Append(visited, e)
           /\ targets' = targets \cup {e.scene}
           /\ trace' = Append(trace, "entity_update")
           /\ CommitEngine(en)
           /\ req' = Requested(EngineState, en, now,
                               e.kind = "start" /\ ButtonClicked(GameState, e))
           /\ \E typed \in BOOLEAN :
                 LET g == IF IsRigidBody(e) THEN RigidBodyUpdate(GameState, e)
                          ELSE IF e.kind = "textbox" THEN TextboxUpdate(GameState, typed)
                          ELSE IF e.kind \in ButtonKinds THEN ButtonUpdate(GameState, e)
                          ELSE GameState        \* Cursor, Gauge: no state of the model
                 IN  /\ Commit(g)
                     /\ pc' = Propagate(g.err, "update")
                     /\ Measured(IF g.err THEN Unwound ELSE <<>>)
    /\ UNCHANGED <<inputVars, frames, profiled, stat_drawing, scenes, added, now, fade, pass_list,
                   pass_start, drawn, raster, particle_vbo>>

\* self.scene.update(), after the loop: the scene that is current now.  The
\* Game scene ends its update with space.step, which moves the dynamic bodies:
\* any of them may be outside the window afterwards.
SceneUpdate ==
    /\ pc = "update" /\ it >= Len(entities[pass_list])
    /\ targets' = targets \cup {current_scene}
    /\ LET en == IF current_scene = "Settings" THEN SettingsUpdateEngine(EngineState)
                 ELSE EngineState
       IN  /\ CommitEngine(en)
           /\ req' = Requested(EngineState, en, now, FALSE)
    /\ IF current_scene = "Game"
       THEN \E timer_over \in BOOLEAN :
               LET g == GameUpdate(GameState, timer_over)
               IN  /\ g.next_id <= MaxBodies + 1
                   /\ IF g.err
                      THEN /\ Commit(g)
                           /\ trace' = Append(trace, "scene_update")
                           /\ pc' = Propagate(TRUE, "render")
                           /\ Measured(Unwound)
                      ELSE /\ \E moved \in SUBSET Dynamic(g) : Commit(SpaceStep(g, moved))
                           /\ trace' = trace \o UpdatePhases(current_scene)
                           /\ pc' = "render"
                           /\ Measured(<<<<"update", Elapsed>>>>)
       ELSE /\ Commit(IF current_scene = "Settings" THEN SettingsUpdateScene(GameState)
                      ELSE GameState)
            /\ settings_gen' <= MaxInits
            /\ trace' = trace \o UpdatePhases(current_scene)
            /\ pc' = "render"
            /\ Measured(<<<<"update", Elapsed>>>>)
    /\ UNCHANGED <<inputVars, frames, profiled, stat_drawing, scenes, added, now, fade, pass_list, it,
                   pass_start, visited, drawn, raster, particle_vbo>>

\* Entity.z_index: 0 from Entity.__init__, 2 for the textbox (textbox.py:21),
\* 1 for the static boxes of a level and of the drawing tool (game.py:261)
ZIndex(e) == IF e.kind = "textbox" THEN 2 ELSE IF e.kind = "static_box" THEN 1 ELSE 0

\* No entity of the program is constructed with a sprite (Entity.__init__'s
\* third argument is never passed)
HasSprite(e) == FALSE

\* A mutant of InsertByZ: an entity goes before the ones with an equal key
RECURSIVE InsertByZBeforeEqual(_, _)
InsertByZBeforeEqual(s, e) ==
    IF s = <<>> THEN <<e>>
    ELSE IF ZIndex(Head(s)) < ZIndex(e) THEN <<Head(s)>> \o InsertByZBeforeEqual(Tail(s), e)
    ELSE <<e>> \o s

\* sorted(..., key=lambda e: e.z_index) is stable: an entity goes behind the
\* ones with a smaller or equal key
RECURSIVE InsertByZ(_, _)
InsertByZ(s, e) ==
    IF s = <<>> THEN <<e>>
    ELSE IF ZIndex(Head(s)) <= ZIndex(e) THEN <<Head(s)>> \o InsertByZ(Tail(s), e)
    ELSE <<e>> \o s

RECURSIVE SortedByZ(_)
SortedByZ(s) ==
    IF s = <<>> THEN <<>>
    ELSE InsertByZ(SortedByZ(SubSeq(s, 1, Len(s) - 1)), s[Len(s)])

NoEntity == Entity("", "", 0)
RenderCall(op, e) == [op |-> op, e |-> e]

\* the body of "for entity in entities" for one entity
EntityRenderCalls(e) ==
    <<RenderCall("render_before", e)>>
    \o (IF HasSprite(e) THEN <<RenderCall("sprite", e)>> ELSE <<>>)
    \o <<RenderCall("render_after", e)>>

RECURSIVE EntitiesRenderCalls(_)
EntitiesRenderCalls(s) ==
    IF s = <<>> THEN <<>>
    ELSE EntityRenderCalls(Head(s)) \o EntitiesRenderCalls(Tail(s))

\* scene.render_before(), the sorted entities, scene.render_after()
RenderCalls(ents) ==
    <<RenderCall("scene_render_before", NoEntity)>>
    \o EntitiesRenderCalls(SortedByZ(ents))
    \o <<RenderCall("scene_render_after", NoEntity)>>

\* The render phase up to scene.render_post(): scene.render_before(), the
\* entities by z_index, scene.render_after(), the display upload, and the
\* scene's post-process.  The textbox ends its hide animation here.
\* Game.render_post unless debug_drawing is on: particle_vbo.clear(), then
\* particle_vbo.write(...) of every particle's position, which raises when the
\* data is larger than the buffer (the finally clauses of profile("render")
\* and profile("frame") record on the way out), then water_post.render()
Render ==
    /\ pc = "render"
    /\ targets' = targets \cup {current_scene}
    /\ drawn' = RenderCalls(entities[current_scene])
    /\ IF current_scene = "Game"
       THEN \E eased \in BOOLEAN : textbox' = TextboxRenderAfter(textbox, eased)
       ELSE textbox' = textbox
    /\ IF current_scene = "Game" /\ ~debug_drawing
       THEN IF Len(particles) > max_particles
            THEN /\ particle_vbo' = VboClear
                 /\ raster' = raster
                 /\ trace' = Append(trace, "render")
                 /\ crashed' = TRUE /\ pc' = Propagate(TRUE, "present")
                 /\ Measured(<<<<"render", Elapsed>>, <<"frame", Elapsed>>>>)
            ELSE /\ particle_vbo' = VboWritten(particle_vbo, Positions(particles))
                 /\ raster' = WaterPostRender(particle_vbo', particles)
                 /\ trace' = trace \o <<"render", "post">>
                 /\ pc' = "present"
                 /\ UNCHANGED <<crashed, stats, samples>>
       ELSE /\ trace' = trace \o <<"render", "post">>
            /\ pc' = "present"
            /\ UNCHANGED <<crashed, stats, samples, particle_vbo, raster>>
    /\ UNCHANGED <<inputVars, frames, profiled, is_running, stat_drawing, scenes, added, now,
                   current_scene, in_transition, transitioned, transition_start,
                   transition_scene, transition_duration, fade, pass_list, it, sceneVars,
                   particles, icecubes, space, oob, next_id, temperature,
                   current_level, level_change, debug_drawing, textbox_slide, forced,
                   pass_start, visited, req>>

\* The rest of the render phase: the transition block, the fade composite,
\* pygame.display.flip(); then profile("render") and profile("frame") record
\* A division by zero (ZeroDivisionError) leaves the frame here; the finally
\* clauses of profile("render") and profile("frame") record on the way out.
EndFrame ==
    /\ pc = "present"
    /\ IF DividesByZero(EngineState)
       THEN /\ crashed' = TRUE /\ pc' = Propagate(TRUE, "top")
            /\ UNCHANGED <<current_scene, in_transition, transitioned, transition_start,
                           transition_scene, transition_duration, is_running, req,
                           fade, trace, frames>>
       ELSE /\ LET en == TransitionStep(EngineState, now)
               IN  /\ CommitEngine(en)
                   /\ req' = Checked(EngineState, en, now)
            /\ fade' = Fade(EngineState, now)
            /\ trace' = Append(trace, "present")
            /\ pc' = "top"
            /\ frames' = IF profiled THEN frames + 1 ELSE frames
            /\ UNCHANGED crashed
    /\ Measured(<<<<"render", Elapsed>>, <<"frame", Elapsed>>>>)
    /\ UNCHANGED <<inputVars, profiled, stat_drawing, scenes, added, now, pass_list, it,
                   sceneVars, gameVars, pass_start, visited, targets, drawn, raster>>

\* A handler of the update phase calls
\* engine.change_scene_transition(scene_name, duration), as the start button
\* does with ("Game", 1.5)
CallTransition(scene_name, duration) ==
    /\ pc = "update"
    /\ LET en == ChangeSceneTransition(EngineState, scene_name, duration, now)
       IN  /\ CommitEngine(en)
           /\ req' = [NoRequest EXCEPT
                         !.active = TRUE, !.T = now, !.D = duration,
                         !.target = scene_name, !.from = current_scene,
                         !.overrode = in_transition,
                         !.prev_target = IF in_transition THEN transition_scene ELSE "",
                         !.prev_swapped = in_transition /\ transitioned]
    /\ UNCHANGED <<inputVars, statVars, pc, crashed, stat_drawing, scenes, added, now, fade, pass_list,
                   it, sceneVars, gameVars, pass_start, visited, trace, targets, drawn,
                   raster>>

\* Time passes while clock.tick() waits at the top of the loop
Tick ==
    /\ pc = "top" /\ is_running
    /\ now < MaxTime
    /\ now' = now + 1
    /\ UNCHANGED <<inputVars, statVars, pc, is_running, crashed, stat_drawing, scenes, added,
                   current_scene, in_transition, transitioned, transition_start,
                   transition_scene, transition_duration, fade, pass_list, it,
                   sceneVars, gameVars, histVars>>

(***************************************************************************)
(* SPECIFICATIONS                                                          *)
(***************************************************************************)
InitInput == InputInit /\ StatsInit /\ EngineInit

NextInput ==
    \/ \E k \in InputKeys : PressKey(k)
    \/ \E k \in InputKeys : RepeatKey(k)
    \/ \E k \in InputKeys : ReleaseKey(k)
    \/ \E b \in InputButtons : PressButton(b)
    \/ \E b \in InputButtons : ReleaseButton(b)
    \/ PollEvents

SpecInput == InitInput /\ [][NextInput]_vars

InitStatsSpec == InputInit /\ StatsInit /\ EngineInit

\* ---- the frame loop on the Game scene
MaxHeat     == 2     \* the player stops heating at this temperature (in steps of 10)
GameKeys    == IF temperature >= MaxHeat THEN {"space"} ELSE {"up", "space"}
GameButtons == {}
GameRegions == {"none"}

InitGame == InputInit /\ StatsInit /\ GameInit

NextGame ==
    \/ FrameInput(GameKeys, GameButtons, GameRegions, SteadyFps)
    \/ RunEnd
    \/ UpdateEntity
    \/ SceneUpdate
    \/ Render
    \/ EndFrame

SpecGame == InitGame /\ [][NextGame]_vars

\* ---- the frame loop on the Game scene, heated up, with particles spawned
\* at the pointer
HotKeys == {"up", "q"}

NextHot ==
    \/ FrameInput(HotKeys, GameButtons, GameRegions, SteadyFps)
    \/ RunEnd
    \/ UpdateEntity
    \/ SceneUpdate
    \/ Render
    \/ EndFrame

SpecHot == InitGame /\ [][NextHot]_vars

\* ---- the frame loop on the Game scene, for every placement of the level
\* geometry: the level file gives each body its position, inside the window
\* rectangle or outside of it
LevelKeys == {"space"}

InitLevel ==
    /\ InputInit /\ StatsInit
    /\ \E placed \in SUBSET ConstructedScenes.space :
          GameStart([ConstructedScenes EXCEPT !.oob = placed])

NextOnLevel ==
    \/ FrameInput(LevelKeys, GameButtons, GameRegions, SteadyFps)
    \/ RunEnd
    \/ UpdateEntity
    \/ SceneUpdate
    \/ Render
    \/ EndFrame

SpecLevel == InitLevel /\ [][NextOnLevel]_vars

\* ---- the frame loop from the menu on, with the clock
MenuKeys    == {}
MenuButtons == {"left"}
MenuRegions == {"start", "settings", "back"}

InitEngine == InputInit /\ StatsInit /\ EngineInit

NextEngine ==
    \/ FrameInput(MenuKeys, MenuButtons, MenuRegions, SteadyFps)
    \/ RunEnd
    \/ UpdateEntity
    \/ SceneUpdate
    \/ Render
    \/ EndFrame
    \/ Tick

SpecEngine == InitEngine /\ [][NextEngine]_vars

NextStats == \E stat \in Series, value \in SampleValues : Record(stat, value)

SpecStats == InitStatsSpec /\ [][NextStats]_vars

(***************************************************************************)
(* CLAIMS                                                                  *)
(***************************************************************************)

\* Whether key or button n goes from held to not held while evs is consumed,
\* starting from the held flag `held`
RECURSIVE HeldToNotHeld(_, _, _)
HeldToNotHeld(n, held, evs) ==
    IF evs = <<>> THEN FALSE
    ELSE LET ev == Head(evs)
         IN  IF ev.code # n THEN HeldToNotHeld(n, held, Tail(evs))
             ELSE IF ev.type \in {"KEYUP", "MOUSEBUTTONUP"}
                  THEN held = 1 \/ HeldToNotHeld(n, 0, Tail(evs))
                  ELSE HeldToNotHeld(n, 1, Tail(evs))

\* Whether key or button n goes from not held to held while evs is consumed
RECURSIVE NotHeldToHeld(_, _, _)
NotHeldToHeld(n, held, evs) ==
    IF evs = <<>> THEN FALSE
    ELSE LET ev == Head(evs)
         IN  IF ev.code # n THEN NotHeldToHeld(n, held, Tail(evs))
             ELSE IF ev.type \in {"KEYDOWN", "MOUSEBUTTONDOWN"}
                  THEN held = 0 \/ NotHeldToHeld(n, 1, Tail(evs))
                  ELSE NotHeldToHeld(n, 0, Tail(evs))

\* C5: key_released(key) reads true exactly in the update() cycle whose event
\* queue takes the key from held to not held, and false in every other cycle.
C5_ReleasedExactlyOneCycle ==
    \A k \in KeyNames :
        (key_released(k) = 1) <=> HeldToNotHeld(k, held_before[k], events)

\* C5 witness: a cycle that consumed the release of a held key and reports it
C5_Witness ==
    \E k \in KeyNames :
        /\ held_before[k] = 1
        /\ \E i \in 1..Len(events) : events[i] = KeyEvent("KEYUP", k)
        /\ key_released(k) = 1
        /\ key_held(k) = 0

\* C6 (the claim as stated): key_pressed / mouse_pressed reads true after an
\* update() exactly when the key went from not held to held in the events that
\* update() consumed -- also when the release follows in the same queue, and
\* not for a repeated key-down of a key that stays held.
C6_PressedIffPressTransition ==
    /\ \A k \in KeyNames :
          (key_pressed(k) = 1) <=> NotHeldToHeld(k, held_before[k], events)
    /\ \A b \in ButtonNames :
          (mouse_pressed(b) = 1) <=> NotHeldToHeld(b, held_before[b], events)

\* The newest `stat_accumulate` samples of a series
Window(s) == LastN(samples[s], stat_accumulate)

\* C7: from the (window+1)-th sample on, avg/min/max are those of the most
\* recent `window` samples, the buffer holds exactly those samples in arrival
\* order (the oldest one is what each insert evicted).
C7_WindowStats ==
    \A s \in Series :
        Len(samples[s]) >= stat_accumulate + 1 =>
            /\ stats[s].acc = Window(s)
            /\ Len(stats[s].acc) = stat_accumulate
            /\ FracEq(stats[s].avg, Fraction(SeqSum(Window(s)), stat_accumulate))
            /\ stats[s].min = SeqMin(Window(s))
            /\ stats[s].max = SeqMax(Window(s))

\* C7 witness: more than window+1 samples, and the evicted ones differ from
\* what is left, so that the window statistics differ from those of all samples
C7_Witness ==
    \E s \in Series :
        /\ Len(samples[s]) > stat_accumulate + 1
        /\ stats[s].max < SeqMax(samples[s])
        /\ stats[s].acc # <<>>

\* C8 (the claim as stated): avg/min/max are updated from the window-th sample
\* on, and keep 0.0 before.
C8_UpdatedFromWindowthSample ==
    \A s \in Series :
        /\ Len(samples[s]) < stat_accumulate =>
              stats[s].avg.num = 0 /\ stats[s].min = 0 /\ stats[s].max = 0
        /\ Len(samples[s]) >= stat_accumulate =>
              /\ FracEq(stats[s].avg, Fraction(SeqSum(Window(s)), Len(Window(s))))
              /\ stats[s].min = SeqMin(Window(s))
              /\ stats[s].max = SeqMax(Window(s))

\* C8 (amended): avg/min/max keep 0.0 up to and including the window-th sample;
\* from the (window+1)-th sample on every sample recomputes them over the buffer.
C8_UpdatedAfterWindowthSample ==
    \A s \in Series :
        /\ Len(samples[s]) <= stat_accumulate =>
              /\ stats[s].avg = Fraction(0, 1) /\ stats[s].min = 0 /\ stats[s].max = 0
              /\ stats[s].acc = samples[s]
        /\ Len(samples[s]) > stat_accumulate =>
              /\ FracEq(stats[s].avg, Fraction(SeqSum(stats[s].acc), Len(stats[s].acc)))
              /\ stats[s].min = SeqMin(stats[s].acc)
              /\ stats[s].max = SeqMax(stats[s].acc)
              /\ stats[s].acc[Len(stats[s].acc)] = samples[s][Len(samples[s])]

\* C8 witness: the first update -- a series that has just received its
\* (window+1)-th sample and reports statistics
C8_Witness ==
    \E s \in Series :
        /\ Len(samples[s]) = stat_accumulate + 1
        /\ stats[s].min > 0
        /\ stats[s].avg.num > 0


(***************************************************************************)
(* THE UPDATE PASS AND KILL                                                *)
(***************************************************************************)
\* The update loop of the frame has ended
PassOver == \/ pc = "update" /\ it >= Len(entities[pass_list])
            \/ pc \in {"render", "present"}

\* How often update() was called on e in this pass
Visits(e) == Cardinality({i \in 1..Len(visited) : visited[i] = e})

\* An entity removed itself from the collection inside its own update()
SelfKill == \E i \in 1..Len(visited) : visited[i] \in killed

\* C1: when the update pass of a frame is over, every entity that was in the
\* scene's collection when the pass began has been visited exactly once, also
\* when an entity killed itself inside its update().
C1_EveryEntityVisitedOnce ==
    PassOver /\ SelfKill => \A e \in Range(pass_start) : Visits(e) = 1

\* The side collections of the Game scene
SideCollections == Range(particles) \cup Range(icecubes)

\* C2: a killed entity is in none of scene.entities, scene.particles and
\* scene.icecubes once the handler that killed it (despawn, melt, load_level)
\* has returned.
C2_KilledInNoCollection ==
    \A e \in killed : /\ \A sc \in SceneNames : e \notin Range(entities[sc])
                      /\ e \notin SideCollections

\* A particle and an ice cube have been killed
C2_Witness ==
    /\ \E e \in killed : e.kind = "circle"
    /\ \E e \in killed : e.kind = "box"

(***************************************************************************)
(* TRANSITIONS                                                             *)
(***************************************************************************)
\* C3 as stated: after a request at T with duration D the scene is the
\* outgoing one at every time before T + 0.5 D, is swapped at most once, and is
\* the target at every time from T + 0.51 D on.
C3_SwappedByTime ==
    req.active =>
        /\ 2 * (now - req.T) < req.D => current_scene = req.from
        /\ req.swaps <= 1
        /\ 100 * (now - req.T) >= 51 * req.D => current_scene = req.target

\* C3, amended: the transition does not change the scene before the first run
\* of the transition block at a time >= T + 0.5 D (without a direct change_scene
\* the scene is the outgoing one until then); that run swaps the scene to
\* the target, once; the scene is the target from then on.
C3_SwappedAtFirstCheck ==
    req.active =>
        /\ req.swaps = 0 /\ ~req.direct => current_scene = req.from
        /\ req.swaps = 0 => 2 * (req.checked - req.T) < req.D
        /\ req.swaps # 0 => /\ req.swaps = 1
                            /\ 2 * (req.swapped_at - req.T) >= req.D
                            /\ current_scene = req.target

\* The transition has swapped the scene and time has passed since
C3_Witness ==
    /\ req.active /\ req.swaps = 1 /\ now > req.swapped_at
    /\ current_scene = req.target /\ req.from # req.target

\* C4 as stated: Transitioning at every time before T + D, Idle at every time
\* from T + D on.
C4_IdleByTime ==
    req.active => (in_transition <=> now - req.T < req.D)

\* C4, amended: Transitioning until the first run of the transition block at a
\* time >= T + D, Idle from that run on.
C4_IdleAtFirstCheck ==
    req.active =>
        /\ in_transition <=> ~req.ended
        /\ ~req.ended => req.checked - req.T < req.D
        /\ req.ended => req.ended_at - req.T >= req.D

\* A transition has ended
C4_Witness == req.active /\ req.ended /\ ~in_transition /\ now >= req.T + req.D

(***************************************************************************)
(* THE FRAME                                                               *)
(***************************************************************************)
\* trace is ordered by rank
Ordered(rank) ==
    \A i, j \in 1..Len(trace) : i < j => rank[trace[i]] <= rank[trace[j]]

StatedRank == [ph \in {"input", "physics", "entity_update", "scene_update",
                       "render", "post", "present"} |->
                 CASE ph = "input" -> 0 [] ph = "physics" -> 1
                   [] ph = "entity_update" -> 2 [] ph = "scene_update" -> 2
                   [] ph = "render" -> 3 [] ph = "post" -> 4 [] OTHER -> 5]

CodeRank == [ph \in {"input", "physics", "entity_update", "scene_update",
                     "render", "post", "present"} |->
                 CASE ph = "input" -> 0 [] ph = "entity_update" -> 1
                   [] ph = "scene_update" -> 2 [] ph = "physics" -> 3
                   [] ph = "render" -> 4 [] ph = "post" -> 5 [] OTHER -> 6]

C10_OneTargetPerFrame == Cardinality(targets) <= 1

(***************************************************************************)
(* BODIES AND THE SIMULATION SPACE                                         *)
(***************************************************************************)
\* The RigidBody objects constructed so far
RigidBodies == {e \in Range(entities["Game"]) \cup space \cup killed : IsRigidBody(e)}

\* C11: at every frame boundary of the Game scene the body and shape of a
\* RigidBody are in the space if and only if the RigidBody is in
\* scene.entities.
C11_InSpaceIffInEntities ==
    pc = "top" => \A r \in RigidBodies : r \in space <=> r \in Range(entities["Game"])

\* A frame boundary on level 1 after spawns, a despawn or melt, and load_level:
\* killed bodies next to live ones
C11_Witness ==
    /\ pc = "top" /\ current_level = 1
    /\ \E r \in killed : r.kind = "static_box"
    /\ \E r \in killed : r.kind # "static_box"
    /\ \E r \in space : r.kind # "static_box"

\* C12: no force is applied to a body that has been removed from the space:
\* every body with an unconsumed force is in the space.
C12_NoForceOnRemovedBody == forced \subseteq space

\* C13: a body that the physics step of a frame has left outside the window is
\* despawned before that frame renders: when the render phase begins, every
\* body outside the window is killed, out of the space and in no side collection.
C13_DespawnedBeforeRender ==
    pc = "render" =>
        \A e \in oob : e \in killed /\ e \notin space /\ e \notin SideCollections

\* C14: no update() of a RigidBody that is outside the window raises, be it a
\* particle, an ice cube or a body of the level geometry: no exception leaves
\* the frame loop.
C14_DespawnNeverRaises == ~crashed

(***************************************************************************)
(* THE ENTITY COLLECTIONS                                                  *)
(***************************************************************************)
\* The entities constructed so far: those of the scenes' constructors, the
\* buttons of every init_btns() run, and the rigid bodies
Created ==
    Range(MenuEntities) \cup Range(GameEntities) \cup Range(SettingsEntities)
    \cup UNION {Range(SettingsButtons(k)) : k \in 0..settings_gen}
    \cup RigidBodies

\* How often e is in the collection of its scene
Registrations(e) ==
    Cardinality({i \in 1..Len(entities[e.scene]) : entities[e.scene][i] = e})

\* C15: an entity is in its scene's collection, once, exactly as long as it
\* has not been killed; nothing removes an entity without killing it.
C15_InCollectionIffNotKilled ==
    \A e \in Created : /\ e \in Range(entities[e.scene]) <=> e \notin killed
                       /\ Registrations(e) <= 1

\* ---- stopping: the menu and the settings screen, every caller of stop().
\* The loop body is sequential code: each phase that is reached runs.
StopKeys    == {"lshift", "escape"}
StopButtons == {"left"}
StopRegions == {"none", "quit", "settings", "save"}

NextStop ==
    \/ FrameInput(StopKeys, StopButtons, StopRegions, SteadyFps)
    \/ RunEnd
    \/ UpdateEntity
    \/ SceneUpdate
    \/ Render
    \/ EndFrame

SpecStop ==
    /\ InitEngine /\ [][NextStop]_vars
    /\ WF_vars(RunEnd) /\ WF_vars(UpdateEntity) /\ WF_vars(SceneUpdate)
    /\ WF_vars(Render) /\ WF_vars(EndFrame)

\* the frame in `trace` ran its update, render, post-process and present
FrameComplete ==
    /\ Len(trace) >= 5
    /\ trace[1] = "input"
    /\ \E i \in 1..Len(trace) : trace[i] = "scene_update"
    /\ SubSeq(trace, Len(trace) - 2, Len(trace)) = <<"render", "post", "present">>

\* C16: once stop() has been called in a frame, that frame still runs all its
\* remaining phases, no further frame begins, and run() terminates.
C16_StopEndsAfterTheFrame ==
    /\ [](~is_running /\ pc \in {"top", "quit"} => FrameComplete)
    /\ [][~is_running => ~(pc = "top" /\ pc' = "update")]_vars
    /\ ((~is_running /\ pc # "quit") ~> (pc = "top" /\ FrameComplete))
    /\ (~is_running ~> pc = "quit")

\* run() has returned after a stop() made by the scene's update, with an entity
\* update before it in that frame
C16_Witness ==
    /\ pc = "quit" /\ ~is_running /\ current_scene = "Settings"
    /\ SettingsSave /\ FrameComplete

\* ---- the frame loop with its statistics, from the menu on: the first
\* MaxFrames iterations
LoopRegions == {"none", "start", "settings"}

InitLoop == InputInit /\ StatsOf(TRUE) /\ EngineInit

NextLoop ==
    \/ FrameInput(MenuKeys, MenuButtons, LoopRegions, SteadyFps)
    \/ RunEnd
    \/ UpdateEntity
    \/ SceneUpdate
    \/ Render
    \/ EndFrame
    \/ Tick

SpecLoop == InitLoop /\ [][NextLoop]_vars

\* C17: at the loop test, after n completed iterations, each of the four
\* series has received exactly n samples.
C17_OneSamplePerSeriesPerFrame ==
    profiled /\ ~crashed /\ pc \in {"top", "quit"}
        => \A s \in Series : Len(samples[s]) = frames

\* three iterations are complete, the last one in the Game scene with the
\* transition still active, an earlier one in the menu
C17_Witness ==
    /\ profiled /\ pc = "top" /\ frames >= 3
    /\ current_scene = "Game" /\ in_transition
    /\ \A s \in Series : Len(samples[s]) = frames

\* ---- the fps series: idle frames of the menu, whatever float
\* clock.get_fps() returns
FpsKeys     == {}
FpsButtons  == {}
FpsRegions  == {"none"}
FpsReadings == {0, 60, PosInf, NaN}

NextFps ==
    \/ FrameInput(FpsKeys, FpsButtons, FpsRegions, FpsReadings)
    \/ RunEnd
    \/ UpdateEntity
    \/ SceneUpdate
    \/ Render
    \/ EndFrame

SpecFps == InitLoop /\ [][NextFps]_vars

Abs(x) == IF x < 0 THEN 0 - x ELSE x

\* twice the time since the transition began, at the present phase
SinceStart2 == 2 * (now - transition_start)

\* C19 as stated: during a transition u_fade is the triangle wave of
\* t = (now - start)/duration: 0 at t = 0, rising linearly to 1 at t = 0.5,
\* falling linearly back to 0 at t = 1.
C19_FadeRisesThenFalls ==
    [][pc = "present" /\ in_transition /\ now - transition_start <= transition_duration
          => FracEq(fade', Fraction(transition_duration
                                      - Abs(SinceStart2 - transition_duration),
                                    transition_duration))]_vars

\* C19, amended: during a transition u_fade is |2t - 1|, the alpha of the
\* frame: 1 at t = 0, falling linearly to 0 at t = 0.5, rising linearly back
\* to 1 at t = 1 (and above 1 when the last run of the block comes at t > 1);
\* outside a transition it is 1.
C19_FadeFallsThenRises ==
    [][pc = "present"
          => FracEq(fade', IF in_transition
                           THEN Fraction(Abs(SinceStart2 - transition_duration),
                                         transition_duration)
                           ELSE Fraction(1, 1))]_vars

\* the frame presented at the midpoint of a transition got u_fade = 0
C19_Witness ==
    /\ pc = "top" /\ in_transition /\ req.checked = now
    /\ SinceStart2 = transition_duration
    /\ fade.num = 0

\* ---- transitions requested at any time, to any scene
CallScenes    == SceneNames
CallDurations == {2, 4}
IdleKeys      == {}
IdleButtons   == {}
IdleRegions   == {"none"}

NextTransition ==
    \/ FrameInput(IdleKeys, IdleButtons, IdleRegions, SteadyFps)
    \/ RunEnd
    \/ UpdateEntity
    \/ \E scene_name \in CallScenes, duration \in CallDurations :
          CallTransition(scene_name, duration)
    \/ SceneUpdate
    \/ Render
    \/ EndFrame
    \/ Tick

SpecTransition == InitEngine /\ [][NextTransition]_vars

\* C20: after change_scene_transition(B2, D2) the start time, target and
\* duration are those of that call, also when a transition to B1 was active;
\* the scene is swapped once, to B2, and stays B2 after the end (nothing is
\* queued); a B1 whose transition had not swapped the scene yet never becomes
\* the current scene.
C20_SecondRequestReplacesFirst ==
    req.active =>
        /\ transition_start = req.T /\ transition_scene = req.target
        /\ transition_duration = req.D
        /\ req.swaps <= 1
        /\ req.swaps = 1 => current_scene = req.target
        /\ req.ended => ~in_transition /\ current_scene = req.target
        /\ req.overrode /\ ~req.prev_swapped /\ req.prev_target \notin {req.target, req.from}
              => current_scene # req.prev_target

\* a request to another scene replaced one that had not swapped the scene, and
\* its own transition has ended
C20_Witness ==
    /\ req.active /\ req.overrode /\ ~req.prev_swapped
    /\ req.prev_target \notin {req.target, req.from}
    /\ req.target # req.from
    /\ req.ended /\ current_scene = req.target

\* ---- transitions requested with any duration, zero included
ZeroScenes    == {"Game", "Menu"}
AnyDurations  == {0, 2}

NextAnyDuration ==
    \/ FrameInput(IdleKeys, IdleButtons, IdleRegions, SteadyFps)
    \/ RunEnd
    \/ UpdateEntity
    \/ \E scene_name \in ZeroScenes, duration \in AnyDurations :
          CallTransition(scene_name, duration)
    \/ SceneUpdate
    \/ Render
    \/ EndFrame
    \/ Tick

SpecAnyDuration == InitEngine /\ [][NextAnyDuration]_vars

\* C21: while a transition is active its duration is positive, whatever
\* duration was passed to change_scene_transition, and the computation of t
\* in the render phase never divides by zero.
C21_ActiveDurationPositive ==
    /\ in_transition => transition_duration > 0
    /\ ~crashed

(***************************************************************************)
(* THE RENDER PASS                                                         *)
(***************************************************************************)
\* the entities of the render calls with operation op, in the order of the calls
RECURSIVE CalledWith(_, _)
CalledWith(calls, op) ==
    IF calls = <<>> THEN <<>>
    ELSE (IF Head(calls).op = op THEN <<Head(calls).e>> ELSE <<>>)
         \o CalledWith(Tail(calls), op)

PositionIn(s, e) == CHOOSE k \in 1..Len(s) : s[k] = e

\* C22: in the render phase every entity of the scene is rendered exactly
\* once, in ascending z_index order with equal keys in insertion order;
\* render_before of an entity is followed by its sprite draw (if it has a
\* sprite) and then its render_after; all of it lies between
\* scene.render_before() and scene.render_after().
C22_RenderedOnceInZOrder ==
    pc = "present" =>
        LET live == entities[current_scene]
            r    == CalledWith(drawn, "render_before")
        IN  /\ Len(r) = Len(live) /\ Range(r) = Range(live)
            /\ \A i, j \in 1..Len(r) :
                  i < j => \/ ZIndex(r[i]) < ZIndex(r[j])
                           \/ /\ ZIndex(r[i]) = ZIndex(r[j])
                              /\ PositionIn(live, r[i]) < PositionIn(live, r[j])
            /\ CalledWith(drawn, "render_after") = r
            /\ \A k \in 1..Len(drawn) :
                  drawn[k].op = "render_before" =>
                      IF HasSprite(drawn[k].e)
                      THEN /\ drawn[k + 1] = RenderCall("sprite", drawn[k].e)
                           /\ drawn[k + 2] = RenderCall("render_after", drawn[k].e)
                      ELSE drawn[k + 1] = RenderCall("render_after", drawn[k].e)
            /\ drawn[1].op = "scene_render_before"
            /\ drawn[Len(drawn)].op = "scene_render_after"
            /\ \A k \in 2..(Len(drawn) - 1) :
                  drawn[k].op \in {"render_before", "sprite", "render_after"}

\* a render pass of the Game scene in which the list order and the draw order
\* differ: the textbox is first in the list, two entities share the key 0,
\* and a static box has the key 1
C22_Witness ==
    /\ pc = "present" /\ current_scene = "Game"
    /\ CalledWith(drawn, "render_before") # entities["Game"]
    /\ \E e \in Range(entities["Game"]) : ZIndex(e) = 1
    /\ Len(entities["Game"]) >= 5

\* ---- the Game scene after the dialogue, with the keys that make particles:
\* q spawns them, up heats the scene until the ice cube melts
FloodKeys == IF temperature >= MaxHeat THEN {"q"} ELSE {"q", "up"}

\* the dialogue has been read up to its last slide
AtLastSlide ==
    [ConstructedScenes EXCEPT !.textbox_slide = NumSlides,
                              !.textbox.done = TRUE, !.textbox.left = 0]

\* space on the last slide has ended the dialogue and spawned the ice cube
AfterDialogue == EndDialogue(AtLastSlide)

InitFlood == InputInit /\ StatsInit /\ GameStart(AfterDialogue)

NextFlood ==
    \/ FrameInput(FloodKeys, GameButtons, GameRegions, SteadyFps)
    \/ RunEnd
    \/ UpdateEntity
    \/ SceneUpdate
    \/ Render
    \/ EndFrame

SpecFlood == InitFlood /\ [][NextFlood]_vars

(***************************************************************************)
(* THE PARTICLE BUFFER                                                     *)
(***************************************************************************)
\* C23: whenever the post-process pipeline is handed the particles, their
\* number is at most max_particles: the count is clamped before it reaches
\* the buffer, whatever was spawned and despawned.
C23_ParticlesWithinCapacity ==
    pc = "render" /\ current_scene = "Game" /\ ~debug_drawing
        => Len(particles) <= max_particles

\* C24: in a frame in which the pipeline runs, the buffer holds the position
\* of the i-th particle in slot i for the n live particles and cleared slots
\* behind them, and the particle pass draws n vertices: it reads those n
\* slots and nothing else.
C24_FreshSlotsOnly ==
    pc = "present" =>
        /\ raster.ran <=> (current_scene = "Game" /\ ~debug_drawing)
        /\ raster.ran =>
              /\ \A i \in 1..max_particles :
                    particle_vbo[i] = IF i <= Len(particles) THEN particles[i].n
                                      ELSE ClearedSlot
              /\ raster.vertices = Len(particles)
              /\ raster.read = [i \in 1..Len(particles) |-> particles[i].n]

\* the pipeline has run with fewer particles than an earlier frame had: a
\* particle has been despawned, another one is alive
C24_Witness ==
    /\ pc = "present" /\ raster.ran
    /\ Len(particles) >= 1 /\ Len(particles) < max_particles
    /\ \E e \in killed : IsCircle(e)

\* ---- frames that raise: the Game scene after the dialogue, with the level's
\* static bodies placed anywhere
InitCrash ==
    /\ InputInit /\ StatsInit
    /\ \E placed \in SUBSET ConstructedScenes.space :
          GameStart([AfterDialogue EXCEPT !.oob = placed])

SpecCrash == InitCrash /\ [][NextFlood]_vars

(***************************************************************************)
(* EXCEPTIONS                                                              *)
(***************************************************************************)
Last(s) == s[Len(s)]
Has(s, x) == \E i \in 1..Len(s) : s[i] = x

\* C25: an exception raised by an update or by a render callback leaves
\* run(): run() stands at its end, the frame's trace stops at the phase that
\* raised (nothing is rendered or presented after a failed update, nothing
\* is presented after a failed render), and no step follows.
C25_ExceptionEndsRun ==
    /\ [](crashed =>
            /\ pc = "quit"
            /\ Last(trace) \in {"entity_update", "scene_update", "render"}
            /\ ~Has(trace, "present") /\ ~Has(trace, "post")
            /\ Last(trace) # "render" => ~Has(trace, "render"))
    /\ [][~crashed]_vars

\* an entity's update has raised
C25_Witness == crashed /\ Last(trace) = "entity_update"

\* a render callback has raised
C25_WitnessRender == crashed /\ Last(trace) = "render"

\* ---- the mouse wheel: pygame reports a wheel step as a press and a release
\* of button 4 (up) or 5 (down)
WheelButtons == {"wheelup", "wheeldown"}

NextWheel ==
    \/ \E b \in WheelButtons : PressButton(b)
    \/ \E b \in WheelButtons : ReleaseButton(b)
    \/ PollEvents

SpecWheel == InitInput /\ [][NextWheel]_vars

\* the queue consumed by the last update() holds a press event of button b
PressEventIn(evs, b) ==
    \E i \in 1..Len(evs) : evs[i] = KeyEvent("MOUSEBUTTONDOWN", b)

\* C26: mouse_wheel_up() (mouse_wheel_down()) reads true exactly in the
\* update() cycles whose queue holds a wheel-up (wheel-down) press event,
\* also when the release event follows in the same queue.
C26_WheelFlagIffPressEvent ==
    /\ WheelUp   <=> PressEventIn(events, "wheelup")
    /\ WheelDown <=> PressEventIn(events, "wheeldown")

\* ---- adding scenes to an engine that has none yet
MaxAdds == 4          \* add_scene calls in one behaviour

\* what the constructor of class cls leaves behind: the entities of the new
\* scene and, for Game, the level it loads
Constructed(g, cls) ==
    [(IF cls = "Game" THEN ConstructedScenes ELSE g)
        EXCEPT !.entities = [g.entities EXCEPT ![cls] = ConstructedScenes.entities[cls]]]

\* Engine.__init__: scenes = {}, __current_scene = None; no scene is constructed
Unconstructed ==
    [ConstructedScenes EXCEPT !.entities = [sc \in SceneNames |-> <<>>],
                              !.space = {}, !.icecubes = <<>>, !.next_id = 1,
                              !.textbox = [visible |-> FALSE, done |-> TRUE,
                                           anim_type |-> 0, left |-> 0]]

InitScenes ==
    /\ InputInit /\ StatsInit
    /\ pc = "top" /\ is_running = TRUE /\ crashed = FALSE /\ stat_drawing = 0
    /\ now = 0
    /\ current_scene = ""
    /\ in_transition = FALSE /\ transitioned = FALSE
    /\ transition_start = 0 /\ transition_scene = "" /\ transition_duration = 0
    /\ fade = Fraction(1, 1)
    /\ pass_list = "" /\ it = 0
    /\ ScenesAre(Unconstructed)
    /\ pass_start = <<>> /\ visited = <<>> /\ trace = <<>> /\ targets = {}
    /\ drawn = <<>> /\ raster = NoRaster
    /\ particle_vbo = VboClear
    /\ req = NoRequest
    /\ scenes = NoScenes /\ added = <<>>

\* Engine.add_scene(scene)
AddScene(cls) ==
    /\ Len(added) < MaxAdds
    /\ LET scene_ == SceneInstance(cls, Len(added) + 1)
           name   == CurrentAfterAdd(current_scene, scene_)
       IN  /\ current_scene' = name
           /\ scenes' = ScenesAfterAdd(scenes, name, scene_)
           /\ added' = Append(added, scene_)
    /\ Commit(Constructed(GameState, cls))
    /\ UNCHANGED <<inputVars, statVars, pc, is_running, crashed, stat_drawing, now,
                   in_transition, transitioned, transition_start, transition_scene,
                   transition_duration, fade, pass_list, it, particle_vbo,
                   pass_start, visited, trace, targets, req, drawn, raster>>

NextScenes == \E cls \in SceneNames : AddScene(cls)

SpecScenes == InitScenes /\ [][NextScenes]_vars

\* the instances of class cls constructed so far
InstancesOf(cls) == {i \in 1..Len(added) : ClassName(added[i]) = cls}

\* C27: after any sequence of add_scene calls the current scene is the
\* instance added last, and every added class name maps to an instance of that
\* class (the one constructed last); names never added have no entry.
C27_LastAddedIsCurrent ==
    /\ added # <<>> =>
          /\ current_scene \in SceneNames
          /\ scenes[current_scene] = Last(added)
    /\ \A cls \in SceneNames :
          IF InstancesOf(cls) = {} THEN scenes[cls] = NoScene
          ELSE /\ ClassName(scenes[cls]) = cls
               /\ \E i \in InstancesOf(cls) :
                      /\ scenes[cls] = added[i]
                      /\ \A j \in InstancesOf(cls) : j <= i

\* three scenes added, the current one of a class other than the first
C27_Witness ==
    /\ Len(added) >= 3
    /\ ClassName(added[1]) # ClassName(Last(added))
    /\ scenes[ClassName(added[1])] = added[1]
    /\ scenes[current_scene] = Last(added)

(***************************************************************************)
(* THE JOYSTICK  (InputManager.get_stick, get_stick_raw)                   *)
(* An axis reading is a multiple of 1/AxisUnit in [-1, 1].  A vector is    *)
(* [x, y, normalized]: the components in that unit and whether             *)
(* normalize_ip() has scaled it to length 1.                               *)
(***************************************************************************)
AxisUnit   == 200
AxisValues == {0 - 200, 0 - 140, 0 - 1, 0, 1, 10, 20, 100, 140, 200}

min_drift_threshold == Fraction(1, 100)           \* input.py:26

Vector2(x, y) == [x |-> x, y |-> y, normalized |-> FALSE]

\* Vector2.length_squared(), as a fraction
LengthSquared(v) ==
    IF v.normalized THEN Fraction(1, 1)
    ELSE Fraction(v.x * v.x + v.y * v.y, AxisUnit * AxisUnit)

FracLess(a, b) == a.num * b.den < b.num * a.den

\* Vector2.normalize_ip()
Normalized(v) == [v EXCEPT !.normalized = TRUE]

\* InputManager.get_stick_raw
get_stick_raw(st) == IF ~st.connected THEN Vector2(0, 0) ELSE Vector2(st.raw[1], st.raw[2])

\* the test of the deadzone
InDeadzoneInverted(length) == FracLess(min_drift_threshold, length)
InDeadzone(length) == FracLess(length, min_drift_threshold)

\* InputManager.get_stick
get_stick(st) ==
    IF ~st.connected THEN Vector2(0, 0)
    ELSE LET axis   == get_stick_raw(st)
             length == LengthSquared(axis)
             axis1  == IF FracLess(Fraction(1, 1), length) THEN Normalized(axis) ELSE axis
         IN  IF InDeadzone(length) THEN Vector2(0, 0) ELSE axis1

\* the player moves the stick
MoveStick(x, y) ==
    /\ stick.connected /\ stick.raw # <<x, y>>
    /\ stick' = [stick EXCEPT !.raw = <<x, y>>]
    /\ UNCHANGED <<pending, down, events, key_states, mouse_states, mouse_at, held_before,
                   crossing, blur, config, statVars, frameVars>>

\* a caller reads the stick
GetStick ==
    /\ stick' = [stick EXCEPT !.called = TRUE, !.from = stick.raw, !.axis = get_stick(stick)]
    /\ stick' # stick
    /\ UNCHANGED <<pending, down, events, key_states, mouse_states, mouse_at, held_before,
                   crossing, blur, config, statVars, frameVars>>

InitStick ==
    /\ KeysInit
    /\ crossing = NoCrossing(<<1280, 720>>)
    /\ blur = NoBlur
    /\ config = NoConfig
    /\ \E c \in BOOLEAN, x \in AxisValues, y \in AxisValues :
          stick = [NoJoystick EXCEPT !.connected = c,
                                     !.raw = IF c THEN <<x, y>> ELSE <<0, 0>>]
    /\ StatsInit /\ EngineInit

NextStick ==
    \/ \E x \in AxisValues, y \in AxisValues : MoveStick(x, y)
    \/ GetStick

SpecStick == InitStick /\ [][NextStick]_vars

\* the magnitude of the raw input the last get_stick() read, squared
RawLengthSquared == LengthSquared(Vector2(stick.from[1], stick.from[2]))
ThresholdSquared ==
    Fraction(min_drift_threshold.num * min_drift_threshold.num,
             min_drift_threshold.den * min_drift_threshold.den)

\* C28: get_stick() returns the zero vector when the magnitude of the raw
\* input is below min_drift_threshold, and a vector of length 1 (the raw
\* input, normalised) when the magnitude is above 1.
C28_DeadzoneAndUnitLength ==
    stick.called =>
       /\ FracLess(RawLengthSquared, ThresholdSquared) => stick.axis = Vector2(0, 0)
       /\ FracLess(Fraction(1, 1), RawLengthSquared) =>
              /\ FracEq(LengthSquared(stick.axis), Fraction(1, 1))
              /\ stick.axis = Normalized(Vector2(stick.from[1], stick.from[2]))

\* a diagonal push beyond the unit circle was read
C28_Witness ==
    /\ stick.called /\ stick.connected
    /\ FracLess(Fraction(1, 1), RawLengthSquared)
    /\ stick.axis.normalized

\* a drift below the threshold was read
C28_WitnessDeadzone ==
    /\ stick.called /\ stick.connected
    /\ stick.from # <<0, 0>>
    /\ FracLess(RawLengthSquared, ThresholdSquared)
    /\ stick.axis = Vector2(0, 0)

(***************************************************************************)
(* WHAT THE PROFILED INTERVALS CONTAIN  (Engine.run, Game.update)          *)
(***************************************************************************)
\* run() is between __enter__ and __exit__ of profile("update"), of profile("render")
InUpdateInterval == pc = "update"
InRenderInterval == pc \in {"render", "present"}

\* the phases a step of the loop adds to the frame's trace
NewPhases ==
    IF Len(trace') >= Len(trace) /\ SubSeq(trace', 1, Len(trace)) = trace
    THEN SubSeq(trace', Len(trace) + 1, Len(trace'))
    ELSE trace'

\* Game.update reaches self.space.step(self.sim_hz)
StepExecutes == Has(NewPhases, "physics")

\* C29: space.step does not execute between the start and the end of the
\* interval measured for the "update" series, nor of the "render" series.
C29_StepOutsideMeasuredIntervals ==
    [][StepExecutes => ~InUpdateInterval /\ ~InRenderInterval]_vars

(***************************************************************************)
(* SCREEN AND SIMULATION UNITS  (Game.spawn_icecube, the q-key spawn of    *)
(* Game.update, RigidBody.update).  Coordinates are exact fractions kept   *)
(* in lowest terms.                                                        *)
(***************************************************************************)
RECURSIVE Gcd(_, _)
Gcd(a, b) == IF b = 0 THEN a ELSE Gcd(b, a % b)

Reduced(f) ==
    LET g == Gcd(Abs(f.num), f.den)
    IN  Fraction(f.num \div g, f.den \div g)

FracMul(a, b)  == Reduced(Fraction(a.num * b.num, a.den * b.den))
FracDiv(a, b)  == Reduced(Fraction(a.num * b.den, a.den * b.num))
FracAdd(a, b)  == Reduced(Fraction(a.num * b.den + b.num * a.den, a.den * b.den))
Whole(n)       == Fraction(n, 1)

\* the resolutions of the settings screen the model follows (button.py:115-119)
Resolutions == {<<1280, 720>>, <<1600, 900>>, <<1920, 1080>>}

\* where a position is taken: the pointer, or the place a level puts its ice cube
ScreenXs == {0, 320, 663, 1000}
ScreenYs == {40, 360, 600}

\* uniform(-1.0, 1.0), per component
Jitters  == {0 - 1, 0, 1}

\* RigidBody.window_ratio and Game.window_ratio2: window_width / 1280
WindowRatio(width) == Reduced(Fraction(width, 1280))

\* Game.spawn_icecube: position / 10
IcecubeToSim(c, w) == FracDiv(Whole(c), Whole(10))

\* the q-key spawn: mouse / 10.0 / window_ratio2 + r
QSpawnToSim(c, w, r) ==
    FracAdd(FracDiv(FracDiv(Whole(c), Whole(10)), WindowRatio(w)), Whole(r))

\* RigidBody.update: phypos * 10.0 * window_ratio
ToScreen(c, w) == FracMul(FracMul(c, Whole(10)), WindowRatio(w))

\* pygame.Rect(0, 0, w, h).collidepoint(p)
CollidePoint(w, h, p) ==
    /\ ~FracLess(p[1], Whole(0)) /\ FracLess(p[1], Whole(w))
    /\ ~FracLess(p[2], Whole(0)) /\ FracLess(p[2], Whole(h))

\* Game.spawn_icecube(position, 0): the body is placed at position / 10
SpawnIcecubeAt(x, y) ==
    /\ crossing.site = "none"
    /\ crossing' = [crossing EXCEPT !.site = "icecube", !.screen = <<x, y>>,
                       !.body = <<IcecubeToSim(x, crossing.width),
                                  IcecubeToSim(y, crossing.width)>>]
    /\ UNCHANGED <<pending, down, events, key_states, mouse_states, mouse_at, held_before,
                   stick, blur, config, statVars, frameVars>>

\* one particle of the q-key spawn with the pointer at (x, y)
QSpawnAt(x, y, rx, ry) ==
    /\ crossing.site = "none"
    /\ crossing' = [crossing EXCEPT !.site = "q", !.screen = <<x, y>>, !.r = <<rx, ry>>,
                       !.body = <<QSpawnToSim(x, crossing.width, rx),
                                  QSpawnToSim(y, crossing.width, ry)>>]
    /\ UNCHANGED <<pending, down, events, key_states, mouse_states, mouse_at, held_before,
                   stick, blur, config, statVars, frameVars>>

\* RigidBody.update of the body just placed
BodyUpdate ==
    /\ crossing.site # "none" /\ ~crossing.updated
    /\ LET position == <<ToScreen(crossing.body[1], crossing.width),
                         ToScreen(crossing.body[2], crossing.width)>>
       IN  crossing' = [crossing EXCEPT
                           !.updated = TRUE, !.position = position,
                           !.killed = ~CollidePoint(crossing.width, crossing.height, position)]
    /\ UNCHANGED <<pending, down, events, key_states, mouse_states, mouse_at, held_before,
                   stick, blur, config, statVars, frameVars>>

InitScale ==
    /\ KeysInit /\ stick = NoJoystick /\ blur = NoBlur /\ config = NoConfig
    /\ \E res \in Resolutions : crossing = NoCrossing(res)
    /\ StatsInit /\ GameInit

NextScale ==
    \/ \E x \in ScreenXs, y \in ScreenYs : SpawnIcecubeAt(x, y)
    \/ \E x \in ScreenXs, y \in ScreenYs, rx \in Jitters, ry \in Jitters : QSpawnAt(x, y, rx, ry)
    \/ BodyUpdate

SpecScale == InitScale /\ [][NextScale]_vars

\* the offset the spawn site adds in simulation units, as RigidBody.update
\* shows it on the screen: r * 10 * window_ratio (r is zero for the ice cube)
ShownOffset(i) == FracMul(Whole(crossing.r[i] * 10), WindowRatio(crossing.width))

\* C30: for every window width, a screen position taken to simulation units
\* at a spawn site (spawn_icecube, the q-key spawn) and back to pixels by
\* RigidBody.update is the original screen position; the random offset of the
\* q-key spawn is allowed for.
C30_RoundTripIsIdentity ==
    crossing.updated =>
        \A i \in 1..2 :
            FracEq(crossing.position[i], FracAdd(Whole(crossing.screen[i]), ShownOffset(i)))

\* the q-key spawn alone returns to the pointer, displaced by its offset
C30_QSpawnRoundTrip ==
    (crossing.updated /\ crossing.site = "q") =>
        \A i \in 1..2 :
            FracEq(crossing.position[i], FracAdd(Whole(crossing.screen[i]), ShownOffset(i)))

\* the ice cube returns to its screen position scaled by window_ratio
C30_IcecubeReturnsScaled ==
    (crossing.updated /\ crossing.site = "icecube") =>
        \A i \in 1..2 :
            FracEq(crossing.position[i],
                   FracMul(Whole(crossing.screen[i]), WindowRatio(crossing.width)))

(***************************************************************************)
(* THE POST-PROCESS PIPELINE  (WaterPostProcess.render)                    *)
(***************************************************************************)
PassOrder == <<"raster", "blur", "threshold", "water", "blurwater">>

\* C31: each run of WaterPostProcess.render() executes the five passes once
\* and in order; every pass after the first reads the target the pass before
\* it wrote in this run, and no pass reads a target it or a later pass writes.
C31_FivePassesChained ==
    pc = "present" =>
        /\ raster.ran <=> raster.passes # <<>>
        /\ raster.ran =>
              /\ Len(raster.passes) = Len(PassOrder)
              /\ \A k \in 1..Len(PassOrder) : raster.passes[k].pass = PassOrder[k]
              /\ \A k \in 2..Len(raster.passes) :
                     raster.passes[k - 1].target \in raster.passes[k].reads
              /\ \A k \in 1..Len(raster.passes) : \A j \in k..Len(raster.passes) :
                     raster.passes[j].target \notin raster.passes[k].reads

\* a frame of the Game scene whose post-process drew particles
C31_Witness ==
    /\ pc = "present" /\ raster.ran /\ raster.vertices > 0
    /\ Len(raster.passes) = 5

(***************************************************************************)
(* THE BLUR SHADER  (WaterPostProcess.blur, fragment shader)               *)
(* A texel of the 8-bit targets is a number in 0..Texel standing for       *)
(* value / Texel.  The input is uniform: every texture() call returns v.   *)
(***************************************************************************)
DIRS    == 24
QUALITY == 3
Texel   == 255

\* the input values followed
TexelValues == 0..31 \cup {128, 200, 255}

\* The loops step floats (d += TAU / DIRS while d < TAU; i += 1/QUALITY while
\* i <= 1.0): with exact arithmetic they run DIRS and QUALITY times; rounding
\* of the accumulated float may give the outer loop one more pass and take
\* the last one from the inner loop
DirCounts  == {DIRS, DIRS + 1}
RingCounts == {QUALITY - 1, QUALITY}

\* the texture() calls the two loops make: rings calls for each direction
RECURSIVE LoopSamples(_, _)
LoopSamples(dirs, rings) ==
    IF dirs = 0 THEN 0 ELSE rings + LoopSamples(dirs - 1, rings)

\* color /= QUALITY * DIRS - 15.0
BlurDivisor == QUALITY * DIRS - 15

\* writing out_color to an 8-bit target clamps to [0, 1] and rounds to a texel
Stored(num, den) ==
    LET r == (2 * num + den) \div (2 * den)
    IN  IF r > Texel THEN Texel ELSE r

\* main() of the blur fragment shader on the uniform input v
BlurMain(v, dirs, rings) ==
    LET taken == 1 + LoopSamples(dirs, rings)        \* the centre, then the loops
        color == v * taken                           \* every sample adds v
    IN  [samples |-> taken, out |-> Stored(color, BlurDivisor)]

ShadeTexel ==
    /\ ~blur.done
    /\ LET res == BlurMain(blur.v, blur.dirs, blur.rings)
       IN  blur' = [blur EXCEPT !.done = TRUE, !.samples = res.samples, !.out = res.out]
    /\ UNCHANGED <<pending, down, events, key_states, mouse_states, mouse_at, held_before,
                   stick, crossing, config, statVars, frameVars>>

InitBlur ==
    /\ KeysInit /\ stick = NoJoystick /\ crossing = NoCrossing(<<1280, 720>>)
    /\ config = NoConfig
    /\ \E v \in TexelValues, d \in DirCounts, r \in RingCounts :
          blur = [NoBlur EXCEPT !.v = v, !.dirs = d, !.rings = r]
    /\ StatsInit /\ GameInit

NextBlur == ShadeTexel

SpecBlur == InitBlur /\ [][NextBlur]_vars

\* C32: the blur divides the accumulated colour by the number of samples
\* accumulated, so a uniform input of value v gives output v.
C32_BlurPreservesUniform ==
    blur.done =>
        /\ blur.samples = BlurDivisor
        /\ blur.out = blur.v

\* what the shader does with exact loop counts: 1 + DIRS * QUALITY samples
\* over a divisor of QUALITY * DIRS - 15
C32_BlurBrightens ==
    (blur.done /\ blur.dirs = DIRS /\ blur.rings = QUALITY) =>
        /\ blur.samples = 1 + DIRS * QUALITY
        /\ blur.samples > BlurDivisor
        /\ blur.out >= blur.v
        /\ (blur.v \in 2..199) => blur.out > blur.v

(***************************************************************************)
(* LOADING THE NEXT LEVEL OVER THE BODIES OF THE LAST  (Game.load_level)   *)
(* The level files are not part of the sources; the file of the first      *)
(* level lists one body or more, that of the next level LevelBodies.       *)
(***************************************************************************)
FirstLevelBodies == {1, 2}

\* up heats the scene until the ice cube melts and the level is cleared
HeatKeys == IF temperature >= MaxHeat THEN {} ELSE {"up"}

\* the dialogue of a first level with that many bodies has ended
AfterDialogueWith(bodies) ==
    EndDialogue([ConstructedWith(bodies) EXCEPT !.textbox_slide = NumSlides,
                                                !.textbox.done = TRUE, !.textbox.left = 0])

InitNextLevel ==
    /\ InputInit /\ StatsInit
    /\ \E bodies \in FirstLevelBodies : GameStart(AfterDialogueWith(bodies))

NextNextLevel ==
    \/ FrameInput(HeatKeys, GameButtons, GameRegions, SteadyFps)
    \/ RunEnd
    \/ UpdateEntity
    \/ SceneUpdate
    \/ Render
    \/ EndFrame

SpecNextLevel == InitNextLevel /\ [][NextNextLevel]_vars

\* Game.update has called load_level for the next level and it has returned
LoadLevelReturned == current_level' = current_level + 1 /\ ~crashed'

\* the rigid bodies constructed before this step
FromBefore(e) == IsRigidBody(e) /\ e.n < next_id

\* C33: after load_level(n) returns, entities, particles, icecubes and the
\* space hold no rigid body from before the call, however many there were.
C33_NoBodyOfThePreviousLevel ==
    [][LoadLevelReturned =>
          /\ \A i \in 1..Len(entities'["Game"]) : ~FromBefore(entities'["Game"][i])
          /\ \A i \in 1..Len(particles') : ~FromBefore(particles'[i])
          /\ \A i \in 1..Len(icecubes') : ~FromBefore(icecubes'[i])
          /\ \A e \in space' : ~FromBefore(e)]_vars

\* with a single body in the previous level the loop has nothing to skip
C33_SingleBodyIsReplaced ==
    [][(LoadLevelReturned /\ Cardinality({e \in space : e.kind = "static_box"}) = 1) =>
          /\ \A i \in 1..Len(entities'["Game"]) : ~FromBefore(entities'["Game"][i])
          /\ \A e \in space' : ~FromBefore(e)]_vars

(***************************************************************************)
(* THE THREE FLAGS OF A KEY TOGETHER  (InputManager.update)                *)
(***************************************************************************)
\* C34: after every update(), for every key and mouse button, pressed implies
\* held and released implies not held, for every order of press and release
\* events of the same key inside one queue.
C34_FlagsConsistent ==
    /\ \A k \in KeyNames :
          /\ key_pressed(k) = 1 => key_held(k) = 1
          /\ key_released(k) = 1 => key_held(k) = 0
    /\ \A b \in ButtonNames :
          /\ mouse_pressed(b) = 1 => mouse_held(b) = 1
          /\ mouse_released(b) = 1 => mouse_held(b) = 0

\* the half that holds: a key reported as pressed is held
C34_PressedImpliesHeld ==
    /\ \A k \in KeyNames : key_pressed(k) = 1 => key_held(k) = 1
    /\ \A b \in ButtonNames : mouse_pressed(b) = 1 => mouse_held(b) = 1

(***************************************************************************)
(* EVENTS WITHOUT A NAME  (InputManager.update, _KEY_INVDICT)              *)
(* update() looks every key code up in _KEY_INVDICT and every button       *)
(* number in _MOUSE_INVDICT.  KEY_MAPPING has no entry for K_PERCENT (nor  *)
(* for the media keys SDL reports); MOUSE_MAPPING ends at button 11.       *)
(***************************************************************************)
UnnamedKeys    == {"percent"}
UnnamedButtons == {"button12"}
AnyKeys        == {"space"} \cup UnnamedKeys
AnyButtons     == {"left"} \cup UnnamedButtons

\* _KEY_INVDICT[event.key] / _MOUSE_INVDICT[event.button] finds a name
Named(ev) ==
    /\ ev.type \in {"KEYDOWN", "KEYUP"} => ev.code \in KeyNames
    /\ ev.type \in {"MOUSEBUTTONDOWN", "MOUSEBUTTONUP"} => ev.code \in ButtonNames

\* the events the loop of update() handles before a lookup raises KeyError
RECURSIVE Handled(_)
Handled(evs) ==
    IF evs = <<>> \/ ~Named(Head(evs)) THEN <<>>
    ELSE <<Head(evs)>> \o Handled(Tail(evs))

\* Engine.handle_events on a queue of any events: a KeyError leaves run()
PollAnyEvents ==
    /\ ~crashed
    /\ events' = pending
    /\ pending' = <<>>
    /\ \E m \in InputRegions : InputUpdate(Handled(pending), m)
    /\ crashed' = (Handled(pending) # pending)
    /\ pc' = Propagate(crashed', pc)
    /\ UNCHANGED <<down, statVars, is_running, stat_drawing, scenes, now, current_scene,
                   in_transition, transitioned, transition_start, transition_scene,
                   transition_duration, fade, pass_list, it, sceneVars, gameVars, histVars>>

NextKeyboard ==
    \/ \E k \in AnyKeys : PressKey(k)
    \/ \E k \in AnyKeys : ReleaseKey(k)
    \/ \E b \in AnyButtons : PressButton(b)
    \/ \E b \in AnyButtons : ReleaseButton(b)
    \/ PollAnyEvents

SpecKeyboard == InitInput /\ [][NextKeyboard]_vars

\* the flags update() leaves when it applies every named event of the queue
AllNamedApplied ==
    LET before(st) == [n \in DOMAIN st |-> <<held_before[n], 0, 0>>]
    IN  /\ key_states = ApplyKeyEvents(before(key_states), SelectSeq(events, Named))
        /\ mouse_states = ApplyMouseEvents(before(mouse_states), SelectSeq(events, Named))

\* C35: for any key code or button number an event carries, named or not,
\* update() completes without error and applies every other event of the queue.
C35_UpdateIsTotal == ~crashed /\ AllNamedApplied

\* with named codes only, update() completes and applies the whole queue
C35_NamedQueuesAreApplied ==
    (\A i \in 1..Len(events) : Named(events[i])) => ~crashed /\ AllNamedApplied

(***************************************************************************)
(* THE END OF THE INTRO DIALOGUE  (Game.update, DurkTextbox)               *)
(***************************************************************************)
DialogueKeys == {"space", "return"}

InitDialogueEnd == InputInit /\ StatsInit /\ GameStart(AtLastSlide)

NextDialogueEnd ==
    \/ FrameInput(DialogueKeys, GameButtons, GameRegions, SteadyFps)
    \/ RunEnd
    \/ UpdateEntity
    \/ SceneUpdate
    \/ Render
    \/ EndFrame

SpecDialogueEnd == InitDialogueEnd /\ [][NextDialogueEnd]_vars

\* the ice cubes spawn_icecube has made so far, despawned ones included
IcecubesSpawned == {e \in Range(entities["Game"]) \cup killed : e.kind = "box"}

\* C36: the end of the intro dialogue spawns exactly one ice cube, whatever
\* space/return presses follow while the textbox is still hiding.
C36_OneIcecubePerDialogue == Cardinality(IcecubesSpawned) <= 1

\* once the textbox is invisible, no press spawns an ice cube
C36_NoSpawnWhenHidden ==
    [][~textbox.visible => Cardinality(IcecubesSpawned') <= Cardinality(IcecubesSpawned)]_vars

(***************************************************************************)
(* THE HARDWARE-SCALING SETTING, SAVED AND READ BACK                       *)
(* (Settings.save_settings, Engine.__init__, SettingsButton)               *)
(***************************************************************************)
MaxSaves == 3         \* save-and-restart rounds in one behaviour

\* what a player may have written into settings.cfg by hand
ConfiguredValues == {"on", "off", "true", "false", "1", "0", "yes", "no", "enabled", "disabled"}

\* _cfg_to_bool: what a configuration entry means
cfg_to_bool(value) == value \in {"true", "t", "1", "on", "yes", "y", "enabled"}

\* str.lower() on the values that occur
Lower(x) == IF x = "True" THEN "true" ELSE IF x = "False" THEN "false" ELSE x

\* bool(x): a str is true unless empty
Truthy(x) == IF x.kind = "bool" THEN x.b ELSE x.s # ""

\* f"{x}"
Format(x) == IF x.kind = "str" THEN x.s ELSE IF x.b THEN "True" ELSE "False"

\* A variant of the engine's read that parses the entry
ReadHardwareScalingParsed(file) == PyBool(cfg_to_bool(Lower(file)))

\* Engine.__init__: self.hardware_scaling = self.config["Engine"]["hardware_scaling"]
ReadHardwareScaling(file) == PyStr(file)

\* the engine starts from the file; SettingsButton.__init__ takes its default
\* toggle from engine.hardware_scaling
Started(file, means, saves) ==
    LET hw == ReadHardwareScaling(file)
    IN  [file |-> file, hardware_scaling |-> hw, default_toggle |-> hw, toggle |-> hw,
         means |-> means, saves |-> saves]

\* SettingsButton.clicked_event of the hw button: self.toggle = not self.toggle
ClickToggle ==
    /\ config' = [config EXCEPT !.toggle = PyBool(~Truthy(config.toggle))]
    /\ UNCHANGED <<pending, down, events, key_states, mouse_states, mouse_at, held_before,
                   stick, crossing, blur, statVars, frameVars>>

\* Settings.save_settings writes the file, the engine stops, and the program
\* is started again
SaveAndRestart ==
    /\ config.saves < MaxSaves
    /\ config' = Started(Format(config.toggle), Truthy(config.toggle), config.saves + 1)
    /\ UNCHANGED <<pending, down, events, key_states, mouse_states, mouse_at, held_before,
                   stick, crossing, blur, statVars, frameVars>>

InitConfig ==
    /\ KeysInit /\ stick = NoJoystick /\ crossing = NoCrossing(<<1280, 720>>)
    /\ blur = NoBlur
    /\ \E file \in ConfiguredValues : config = Started(file, cfg_to_bool(Lower(file)), 0)
    /\ StatsInit /\ EngineInit

NextConfig == ClickToggle \/ SaveAndRestart

SpecConfig == InitConfig /\ [][NextConfig]_vars

\* C37: the hardware-scaling choice saved by save_settings (or configured in
\* the file) and read by the engine at startup evaluates, where the settings
\* button takes its default toggle, to the same on/off value.
C37_ChoiceReadBack == Truthy(config.default_toggle) = config.means

\* a saved or configured "on" is read back as on
C37_OnReadBackAsOn == config.means => Truthy(config.default_toggle)

(***************************************************************************)
(* THE CURRENT SCENE NAME  (Engine.scene, change_scene)                    *)
(***************************************************************************)
\* the names a caller can pass: the three scene classes and a name no scene has
AnyNames == SceneNames \cup {"Credits"}

\* name in self.scenes
IsKey(sc, name) == name \in DOMAIN sc /\ sc[name] # NoScene

\* a caller runs engine.change_scene(scene_name) between two frames
CallChangeScene(scene_name) ==
    /\ pc = "top" /\ is_running /\ ~crashed /\ added # <<>>
    /\ CommitEngine(ChangeScene(EngineState, scene_name))
    /\ UNCHANGED <<inputVars, statVars, pc, crashed, stat_drawing, now, fade, pass_list,
                   it, scenes, sceneVars, gameVars, histVars>>

\* a caller runs engine.change_scene_transition(scene_name, duration)
CallChangeSceneTransition(scene_name, duration) ==
    /\ pc = "top" /\ is_running /\ ~crashed /\ added # <<>>
    /\ CommitEngine(ChangeSceneTransition(EngineState, scene_name, duration, now))
    /\ UNCHANGED <<inputVars, statVars, pc, crashed, stat_drawing, now, fade, pass_list,
                   it, scenes, sceneVars, gameVars, histVars>>

\* One iteration of Engine.run as far as the current scene goes: self.scene is
\* read at the start of the update phase (line 401), the transition block may
\* swap the scene (lines 441-446), and self.scene is read again for u_temp
\* (line 455).  A name that is no key raises KeyError, which leaves run().
FrameSceneReads ==
    /\ pc = "top" /\ is_running /\ ~crashed /\ added # <<>>
    /\ IF ~IsKey(scenes, current_scene)
       THEN /\ crashed' = TRUE /\ pc' = Propagate(TRUE, "top")
            /\ UNCHANGED <<current_scene, in_transition, transitioned, transition_start,
                           transition_scene, transition_duration, is_running, fade,
                           pass_list>>
       ELSE LET en == TransitionStep(EngineState, now)
            IN  /\ CommitEngine(en)
                /\ fade' = Fade(EngineState, now)
                /\ pass_list' = current_scene
                /\ crashed' = ~IsKey(scenes, en.current_scene)
                /\ pc' = Propagate(crashed', "top")
    /\ UNCHANGED <<inputVars, statVars, stat_drawing, now, it, scenes, sceneVars,
                   gameVars, histVars>>

SceneAdds == 2      \* scenes added before the names are passed

AddSome(cls) == Len(added) < SceneAdds /\ pc = "top" /\ AddScene(cls)

NextSceneNames ==
    \/ \E cls \in SceneNames : AddSome(cls)
    \/ \E scene_name \in AnyNames : CallChangeScene(scene_name)
    \/ \E scene_name \in AnyNames, duration \in CallDurations :
          CallChangeSceneTransition(scene_name, duration)
    \/ FrameSceneReads
    \/ Tick

SpecSceneNames == InitScenes /\ [][NextSceneNames]_vars

\* C38: after the first add_scene the current scene name is a key of the
\* scene mapping in every reachable state, whatever name was passed to
\* change_scene or change_scene_transition (the swap at the midpoint of a
\* transition included), and reading Engine.scene never fails.
C38_CurrentSceneIsKey ==
    /\ added # <<>> => IsKey(scenes, current_scene)
    /\ ~crashed

\* with the names the program passes (button.py:83, button.py:86,
\* settings.py:73) and the three scenes main.py adds, the current scene is a key
C38_ProgramNamesAreKeys == IsKey(scenes, current_scene) /\ scenes = ScenesOf(MainScenes)

(***************************************************************************)
(* THE RANGE OF THE FADE  (Engine.run, u_fade)                             *)
(***************************************************************************)
\* 0 <= f <= 1 for a fraction with a positive denominator
InUnitInterval(f) == f.den > 0 /\ f.num >= 0 /\ f.num <= f.den

\* C39: the fade passed to the post shader is within [0, 1] in every frame:
\* 1.0 with no transition active, and within [0, 1] in every frame of a
\* transition, the last one included when it is evaluated at t > 1.0.
C39_FadeInUnitInterval ==
    /\ []InUnitInterval(fade)
    /\ [][pc = "present" /\ ~in_transition /\ ~crashed => FracEq(fade', Fraction(1, 1))]_vars

\* the fade is never negative, it is 1 outside a transition, and it is at
\* most 1 in every frame evaluated at t <= 1.0
C39_FadeInUnitIntervalUntilEnd ==
    [][pc = "present" /\ ~crashed
          => /\ fade'.num >= 0 /\ fade'.den > 0
             /\ ~in_transition => FracEq(fade', Fraction(1, 1))
             /\ in_transition /\ now - transition_start <= transition_duration
                   => InUnitInterval(fade')]_vars
====
